---- MODULE Spec2Model ----
(***************************************************************************)
(* Passkey smart wallet (packages/contracts/smart-wallet-account).         *)
(*                                                                         *)
(* State machine of one SmartWallet contract instance: its instance,       *)
(* persistent and temporary storage tiers with per-entry TTL, the ledger   *)
(* sequence number, and a record of the last invocation (arguments and     *)
(* outcome).  Byte strings are sequences of 0..255; Rust index i is TLA+   *)
(* index i + 1.                                                            *)
(*                                                                         *)
(* State of one Factory contract instance (factory.rs): its instance and   *)
(* persistent storage (factory) and the storage of the wallet contracts it *)
(* deployed, by address (wallets).                                         *)
(*                                                                         *)
(* State of the sibling contracts: the instance storage of one SmartSwap   *)
(* contract (swap) and of one SecurityLimits contract (limits), and the    *)
(* close time of the ledger they run on (timestamp).                       *)
(***************************************************************************)
EXTENDS Integers, Sequences, FiniteSets, TLC

VARIABLES instance, instance_live, persistent, temporary, ledger, last,
          factory, wallets, swap, limits, timestamp

vars == <<instance, instance_live, persistent, temporary, ledger, last,
          factory, wallets, swap, limits, timestamp>>

(***************************************************************************)
(* Bounds of the model.                                                    *)
(***************************************************************************)
\* Ledger sequence numbers explored are 0 .. MaxLedger.
MaxLedger == 17281

(***************************************************************************)
(* wallet.rs constants                                                     *)
(***************************************************************************)
ADMIN_TTL_THRESHOLD == 60480
ADMIN_TTL_EXTEND == 120960
SESSION_TTL_THRESHOLD == 8640
SESSION_TTL_EXTEND == 17280

(***************************************************************************)
(* types.rs                                                                *)
(***************************************************************************)
Admin == "Admin"
Session == "Session"
SignerKind == {Admin, Session}

\* WalletError discriminants (wire codes).
WalletError ==
  [SignerNotFound |-> 1, SignerAlreadyExists |-> 2, LastAdminSigner |-> 3,
   ChallengeMismatch |-> 4, AlreadyInitialized |-> 5, NotAuthorized |-> 6,
   InvalidPublicKey |-> 7, InvalidClientData |-> 8]

\* Outcomes of an invocation: Ok, a WalletError name, HostTrap (a host-level
\* failure inside the contract, e.g. secp256r1_verify rejecting) or
\* AuthFailed (the host's require_auth did not obtain authorization).
Ok == "Ok"
HostTrap == "HostTrap"
AuthFailed == "AuthFailed"

\* Absent storage entry.
None == [absent |-> TRUE]

(***************************************************************************)
(* base64url_encode (wallet.rs)                                            *)
(***************************************************************************)
\* b"ABCDEFGHIJKLMNOPQRSTUVWXYZabcdefghijklmnopqrstuvwxyz0123456789-_"
TABLE ==
  [i \in 0..63 |->
     IF i < 26 THEN 65 + i
     ELSE IF i < 52 THEN 97 + (i - 26)
     ELSE IF i < 62 THEN 48 + (i - 52)
     ELSE IF i = 62 THEN 45 ELSE 95]

\* The four output bytes of one full 3-byte chunk.
EncodeChunk(b0, b1, b2) ==
  LET triple == b0 * 65536 + b1 * 256 + b2
  IN  << TABLE[(triple \div 262144) % 64], TABLE[(triple \div 4096) % 64],
         TABLE[(triple \div 64) % 64], TABLE[triple % 64] >>

RECURSIVE EncodeChunks(_, _, _)
\* The loop `for i in 0..chunks`, from iteration i on.
EncodeChunks(input, i, chunks) ==
  IF i >= chunks THEN << >>
  ELSE EncodeChunk(input[i * 3 + 1], input[i * 3 + 2], input[i * 3 + 3])
         \o EncodeChunks(input, i + 1, chunks)

\* base64url_encode that pads the last group with '=' (RFC 4648 section 4
\* style padding).
base64url_encode_Padded(input) ==
  LET chunks == Len(input) \div 3
      remainder == Len(input) % 3
      head == EncodeChunks(input, 0, chunks)
  IN  IF remainder = 2 THEN
        LET triple == input[chunks * 3 + 1] * 65536 + input[chunks * 3 + 2] * 256
        IN  head \o << TABLE[(triple \div 262144) % 64],
                       TABLE[(triple \div 4096) % 64],
                       TABLE[(triple \div 64) % 64], 61 >>
      ELSE IF remainder = 1 THEN
        LET triple == input[chunks * 3 + 1] * 65536
        IN  head \o << TABLE[(triple \div 262144) % 64],
                       TABLE[(triple \div 4096) % 64], 61, 61 >>
      ELSE head

base64url_encode(input) ==
  LET chunks == Len(input) \div 3
      remainder == Len(input) % 3
      head == EncodeChunks(input, 0, chunks)
  IN  IF remainder = 2 THEN
        LET triple == input[chunks * 3 + 1] * 65536 + input[chunks * 3 + 2] * 256
        IN  head \o << TABLE[(triple \div 262144) % 64],
                       TABLE[(triple \div 4096) % 64],
                       TABLE[(triple \div 64) % 64] >>
      ELSE IF remainder = 1 THEN
        LET triple == input[chunks * 3 + 1] * 65536
        IN  head \o << TABLE[(triple \div 262144) % 64],
                       TABLE[(triple \div 4096) % 64] >>
      ELSE head

(***************************************************************************)
(* verify_challenge (wallet.rs)                                            *)
(***************************************************************************)
\* b"\"challenge\":\""
needle == << 34, 99, 104, 97, 108, 108, 101, 110, 103, 101, 34, 58, 34 >>

\* The inner loop: the needle matches client_data_json at 0-based offset i.
NeedleAt(client_data_json, i) ==
  \A j \in 0..(Len(needle) - 1) : client_data_json[i + j + 1] = needle[j + 1]

\* challenge_start that keeps the last matching offset instead of the first.
challenge_start_LastOccurrence(client_data_json) ==
  LET json_len == Len(client_data_json)
      needle_len == Len(needle)
      hits == IF json_len >= needle_len
              THEN {i \in 0..(json_len - needle_len) : NeedleAt(client_data_json, i)}
              ELSE {}
  IN  IF hits = {} THEN None
      ELSE [absent |-> FALSE,
            value |-> (CHOOSE i \in hits : \A k \in hits : i >= k) + needle_len]

\* challenge_start: Some(i + needle_len) for the first matching i, else None.
challenge_start(client_data_json) ==
  LET json_len == Len(client_data_json)
      needle_len == Len(needle)
      hits == IF json_len >= needle_len
              THEN {i \in 0..(json_len - needle_len) : NeedleAt(client_data_json, i)}
              ELSE {}
  IN  IF hits = {} THEN None
      ELSE [absent |-> FALSE,
            value |-> (CHOOSE i \in hits : \A k \in hits : i <= k) + needle_len]

\* challenge_end: Some(i) for the first i in start..json_len holding '"'.
challenge_end(client_data_json, start) ==
  LET hits == {i \in start..(Len(client_data_json) - 1) : client_data_json[i + 1] = 34}
  IN  IF hits = {} THEN None
      ELSE [absent |-> FALSE, value |-> CHOOSE i \in hits : \A k \in hits : i <= k]

\* verify_challenge that takes the end of the blob for a missing closing quote.
verify_challenge_OpenEnded(client_data_json, signature_payload) ==
  LET start == challenge_start(client_data_json)
  IN  IF start = None THEN "InvalidClientData"
      ELSE LET end == challenge_end(client_data_json, start.value)
               stop == IF end = None THEN Len(client_data_json) ELSE end.value
               challenge_bytes == SubSeq(client_data_json, start.value + 1, stop)
               expected == base64url_encode(signature_payload)
           IN  IF challenge_bytes # expected THEN "ChallengeMismatch" ELSE Ok

\* verify_challenge that compares the extracted bytes with a prefix of the
\* expected encoding.
verify_challenge_PrefixOnly(client_data_json, signature_payload) ==
  LET start == challenge_start(client_data_json)
  IN  IF start = None THEN "InvalidClientData"
      ELSE LET end == challenge_end(client_data_json, start.value)
           IN  IF end = None THEN "InvalidClientData"
               ELSE LET challenge_bytes ==
                          SubSeq(client_data_json, start.value + 1, end.value)
                        expected == base64url_encode(signature_payload)
                    IN  IF Len(challenge_bytes) > Len(expected)
                           \/ challenge_bytes # SubSeq(expected, 1, Len(challenge_bytes))
                        THEN "ChallengeMismatch"
                        ELSE Ok

\* The 0-based indices verify_challenge passes to client_data_json.get: the
\* needle search reads i + j, the scan for the closing quote start..json_len.
get_indices(client_data_json) ==
  LET json_len == Len(client_data_json)
      needle_len == Len(needle)
      search == IF json_len >= needle_len
                THEN {i + j : i \in 0..(json_len - needle_len), j \in 0..(needle_len - 1)}
                ELSE {}
      start == challenge_start(client_data_json)
      scan == IF start = None THEN {} ELSE start.value..(json_len - 1)
  IN  search \cup scan

verify_challenge(client_data_json, signature_payload) ==
  LET start == challenge_start(client_data_json)
  IN  IF start = None THEN "InvalidClientData"
      ELSE LET end == challenge_end(client_data_json, start.value)
           IN  IF end = None THEN "InvalidClientData"
               ELSE LET challenge_bytes ==
                          SubSeq(client_data_json, start.value + 1, end.value)
                        expected == base64url_encode(signature_payload)
                    IN  IF challenge_bytes # expected THEN "ChallengeMismatch"
                        ELSE Ok

(***************************************************************************)
(* Host primitives used by the wallet (soroban_sdk), as the contract sees  *)
(* them: a key/value map per tier with a live-until ledger per entry, a    *)
(* collision-free SHA-256 and a secp256r1 verifier that accepts exactly    *)
(* the signatures made with the private key of the given public key over   *)
(* the given digest.                                                       *)
(***************************************************************************)
sha256(data) == [sha256 |-> data]

\* A compact R||S signature, named by the key pair and digest that made it.
Sign(public_key, digest) == [signer |-> public_key, digest |-> digest]

\* env.crypto().secp256r1_verify: TRUE when accepted, FALSE when it traps.
secp256r1_verify(public_key, message_hash, sig) ==
  sig.signer = public_key /\ sig.digest = message_hash

has(tier, key) == tier[key] # None

get(tier, key) == IF tier[key] = None THEN None ELSE tier[key].value

\* set: a fresh entry starts with the least lifetime the host can give
\* (live until the current ledger); an overwrite keeps the entry's lifetime.
set(tier, key, val, now) ==
  [tier EXCEPT ![key] = [value |-> val,
                         live_until |-> IF @ = None THEN now ELSE @.live_until]]

remove(tier, key) == [tier EXCEPT ![key] = None]

\* extend_ttl(threshold, extend_to) on a live-until value.
extend_live(live_until, now, threshold, extend_to) ==
  IF live_until - now < threshold THEN now + extend_to ELSE live_until

\* extend_ttl(key, threshold, extend_to) on an entry of a tier.
extend_ttl(tier, key, now, threshold, extend_to) ==
  [tier EXCEPT ![key] =
     [@ EXCEPT !.live_until = extend_live(@, now, threshold, extend_to)]]

(***************************************************************************)
(* Internal helpers of wallet.rs.  env is the contract's view of the       *)
(* ledger: [instance, instance_live, persistent, temporary, ledger].       *)
(***************************************************************************)
\* WalletDataKey::WalletAddress / AdminSignerCount: the instance-tier keys.
WalletAddress == "WalletAddress"
AdminSignerCount == "AdminSignerCount"

\* env.current_contract_address()
current_contract_address == "wallet"

Signer(public_key, kind) == [public_key |-> public_key, kind |-> kind]

\* get_signer that looks in temporary storage first.
get_signer_TemporaryFirst(env, credential_id) ==
  IF get(env.temporary, credential_id) # None
  THEN get(env.temporary, credential_id)
  ELSE IF get(env.persistent, credential_id) # None
  THEN get(env.persistent, credential_id)
  ELSE None

get_signer(env, credential_id) ==
  IF get(env.persistent, credential_id) # None
  THEN get(env.persistent, credential_id)
  ELSE IF get(env.temporary, credential_id) # None
  THEN get(env.temporary, credential_id)
  ELSE None

\* extend_signer_ttl that uses the session floor and extension for every kind.
extend_signer_ttl_SessionFloor(env, credential_id, kind) ==
  IF kind = Admin
  THEN [env EXCEPT
          !.persistent = extend_ttl(@, credential_id, env.ledger,
                                    SESSION_TTL_THRESHOLD, SESSION_TTL_EXTEND),
          !.instance_live = extend_live(@, env.ledger,
                                        SESSION_TTL_THRESHOLD, SESSION_TTL_EXTEND)]
  ELSE [env EXCEPT
          !.temporary = extend_ttl(@, credential_id, env.ledger,
                                   SESSION_TTL_THRESHOLD, SESSION_TTL_EXTEND)]

extend_signer_ttl(env, credential_id, kind) ==
  IF kind = Admin
  THEN [env EXCEPT
          !.persistent = extend_ttl(@, credential_id, env.ledger,
                                    ADMIN_TTL_THRESHOLD, ADMIN_TTL_EXTEND),
          !.instance_live = extend_live(@, env.ledger,
                                        ADMIN_TTL_THRESHOLD, ADMIN_TTL_EXTEND)]
  ELSE [env EXCEPT
          !.temporary = extend_ttl(@, credential_id, env.ledger,
                                   SESSION_TTL_THRESHOLD, SESSION_TTL_EXTEND)]

\* validate_public_key without the prefix test.
validate_public_key_AcceptAll(public_key) == Ok

validate_public_key(public_key) ==
  IF public_key[1] # 4 THEN "InvalidPublicKey" ELSE Ok

(***************************************************************************)
(* Inputs of the invocations.                                              *)
(***************************************************************************)
\* cred_id("A"), cred_id("B"): the credential ids presented to the wallet.
Creds == {<< 65 >>, << 66 >>}

\* tests.rs dummy_public_key(seed): 0x04 then seed.wrapping_add(i).
dummy_public_key(seed) == [i \in 1..65 |-> IF i = 1 THEN 4 ELSE (seed + (i - 1)) % 256]

\* tests.rs invalid_public_key: compressed prefix 0x02 then 0xAA.
invalid_public_key == [i \in 1..65 |-> IF i = 1 THEN 2 ELSE 170]

ValidKeys == {dummy_public_key(1), dummy_public_key(50)}

PublicKeys == ValidKeys \cup {invalid_public_key}

\* signature_payload values: 32 bytes of 0x00 and 32 bytes of 0xFF.
PayloadZero == [i \in 1..32 |-> 0]
PayloadFF == [i \in 1..32 |-> 255]
Payloads == {PayloadZero, PayloadFF}

\* clientDataJSON blobs: {"challenge":"<C>"} for C the encoding of the zero
\* payload, one without the challenge key, one whose value is never closed.
ClientData(challenge) == << 123 >> \o needle \o challenge \o << 34, 125 >>
NoChallengeJson == << 123, 125 >>
OpenChallengeJson == << 123 >> \o needle \o base64url_encode(PayloadZero)
ClientDatas ==
  {ClientData(base64url_encode(PayloadZero)), NoChallengeJson, OpenChallengeJson}

\* Blobs without a closed challenge value: empty, shorter than the needle,
\* the needle cut by one byte, the needle alone, ending right after the
\* needle, a value that is never closed, a space after the colon, and the
\* key followed by a number instead of a string.
MalformedClientDatas ==
  {<< >>, NoChallengeJson, SubSeq(needle, 1, Len(needle) - 1), needle,
   << 123 >> \o needle, OpenChallengeJson,
   << 123 >> \o SubSeq(needle, 1, Len(needle) - 1) \o << 32, 34 >>
      \o base64url_encode(PayloadZero) \o << 34, 125 >>,
   << 123 >> \o SubSeq(needle, 1, Len(needle) - 1) \o << 49, 50, 125 >>}

\* b"{\"type\":\"webauthn.get\","
TypeField ==
  << 123, 34, 116, 121, 112, 101, 34, 58, 34, 119, 101, 98, 97, 117, 116, 104,
     110, 46, 103, 101, 116, 34, 44 >>

\* b",\"origin\":\"https://x\"}"
OriginField ==
  << 44, 34, 111, 114, 105, 103, 105, 110, 34, 58, 34, 104, 116, 116, 112, 115,
     58, 47, 47, 120, 34, 125 >>

\* A browser's clientDataJSON: type, challenge and origin fields.
WebAuthnClientData(challenge) ==
  TypeField \o needle \o challenge \o << 34 >> \o OriginField

\* Blobs with a closed challenge value: the encoding of either payload, the
\* encoding cut by one byte or longer by one byte, the empty value, and the
\* encodings inside a browser's blob.
DelimitedClientDatas ==
  {ClientData(base64url_encode(PayloadZero)), ClientData(base64url_encode(PayloadFF)),
   ClientData(SubSeq(base64url_encode(PayloadZero), 1, 42)),
   ClientData(base64url_encode(PayloadZero) \o << 65 >>),
   ClientData(<< >>),
   WebAuthnClientData(base64url_encode(PayloadZero)),
   WebAuthnClientData(base64url_encode(PayloadFF))}

\* Every blob __check_auth is applied to.
ProbedClientDatas == ClientDatas \cup MalformedClientDatas \cup DelimitedClientDatas

AuthenticatorData == << 73, 1 >>

\* What an authenticator signs: SHA-256(authData || SHA-256(clientDataJSON)).
SignedDigest(authenticator_data, client_data_json) ==
  sha256(<< authenticator_data, sha256(client_data_json) >>)

\* Signatures submitted with a blob: made by either key pair over the right
\* digest, or over the digest of another blob.
SignaturesFor(client_data_json) ==
  {Sign(k, SignedDigest(AuthenticatorData, client_data_json)) : k \in ValidKeys}
    \cup {Sign(dummy_public_key(1), SignedDigest(AuthenticatorData, << >>))}

\* types.rs Signature values.
Assertions ==
  UNION {{[authenticator_data |-> AuthenticatorData, client_data_json |-> j,
           id |-> c, signature |-> s] : c \in Creds, s \in SignaturesFor(j)}
         : j \in ClientDatas}

\* The same over a given set of blobs.
AssertionsOver(blobs) ==
  UNION {{[authenticator_data |-> AuthenticatorData, client_data_json |-> j,
           id |-> c, signature |-> s] : c \in Creds, s \in SignaturesFor(j)}
         : j \in blobs}

\* Vec<Context> values the host passes: none, and the invocation of the
\* wallet's own remove_signer.
AuthContexts ==
  {<< >>,
   << [contract |-> "wallet", fn_name |-> "remove_signer", args |-> << << 65 >> >>] >>}

\* Authorization entries a transaction carries for the wallet's address when
\* it calls a signer-management entry point: a well-formed assertion over
\* the transaction's payload naming credential c and signed with key pair k.
AuthEntries ==
  {[signature_payload |-> PayloadZero,
    signature |-> [authenticator_data |-> AuthenticatorData,
                   client_data_json |-> ClientData(base64url_encode(PayloadZero)),
                   id |-> c,
                   signature |-> Sign(k, SignedDigest(AuthenticatorData,
                                       ClientData(base64url_encode(PayloadZero))))],
    auth_contexts |-> << >>] : c \in Creds, k \in ValidKeys}

\* verify_challenge tabulated over the blobs and payloads of the model.
ChallengeOutcome ==
  [j \in ProbedClientDatas, p \in Payloads |-> verify_challenge(j, p)]

(***************************************************************************)
(* CustomAccountInterface::__check_auth.  The outcome carries the steps    *)
(* that ran, in order, and the ledger view the invocation leaves (the one  *)
(* it was given when it fails: a failed invocation is rolled back).        *)
(***************************************************************************)
Outcome(result, env, steps) == [result |-> result, env |-> env, steps |-> steps]

\* __check_auth that never calls secp256r1_verify.
__check_auth_SkipVerify(env, signature_payload, signature, _auth_contexts) ==
  LET signer == get_signer(env, signature.id)
  IN  IF signer = None
      THEN Outcome("SignerNotFound", env, << "get_signer" >>)
      ELSE
      LET challenge == ChallengeOutcome[signature.client_data_json, signature_payload]
      IN  IF challenge # Ok
          THEN Outcome(challenge, env, << "get_signer", "verify_challenge" >>)
          ELSE Outcome(Ok, extend_signer_ttl(env, signature.id, signer.kind),
                       << "get_signer", "verify_challenge", "extend_signer_ttl" >>)

\* __check_auth that verifies the challenge before it resolves the signer.
__check_auth_ChallengeFirst(env, signature_payload, signature, _auth_contexts) ==
  LET challenge == ChallengeOutcome[signature.client_data_json, signature_payload]
      signer == get_signer(env, signature.id)
  IN  IF challenge # Ok
      THEN Outcome(challenge, env, << "verify_challenge" >>)
      ELSE IF signer = None
      THEN Outcome("SignerNotFound", env, << "verify_challenge", "get_signer" >>)
      ELSE IF ~secp256r1_verify(signer.public_key,
                                sha256(<< signature.authenticator_data,
                                          sha256(signature.client_data_json) >>),
                                signature.signature)
      THEN Outcome(HostTrap, env,
                   << "verify_challenge", "get_signer", "secp256r1_verify" >>)
      ELSE Outcome(Ok, extend_signer_ttl(env, signature.id, signer.kind),
                   << "verify_challenge", "get_signer", "secp256r1_verify",
                      "extend_signer_ttl" >>)

\* __check_auth that lets a Session signer authorize nothing on the wallet
\* itself.
__check_auth_AdminOnlyOnWallet(env, signature_payload, signature, _auth_contexts) ==
  LET signer == get_signer(env, signature.id)
  IN  IF signer = None
      THEN Outcome("SignerNotFound", env, << "get_signer" >>)
      ELSE IF /\ signer.kind = Session
              /\ \E i \in DOMAIN _auth_contexts : _auth_contexts[i].contract = "wallet"
      THEN Outcome("NotAuthorized", env, << "get_signer" >>)
      ELSE
      LET challenge == ChallengeOutcome[signature.client_data_json, signature_payload]
      IN  IF challenge # Ok
          THEN Outcome(challenge, env, << "get_signer", "verify_challenge" >>)
          ELSE IF ~secp256r1_verify(signer.public_key,
                                    sha256(<< signature.authenticator_data,
                                              sha256(signature.client_data_json) >>),
                                    signature.signature)
          THEN Outcome(HostTrap, env,
                       << "get_signer", "verify_challenge", "secp256r1_verify" >>)
          ELSE Outcome(Ok, extend_signer_ttl(env, signature.id, signer.kind),
                       << "get_signer", "verify_challenge", "secp256r1_verify",
                          "extend_signer_ttl" >>)

\* __check_auth that turns a rejected signature into ChallengeMismatch.
__check_auth_MismatchOnBadSignature(env, signature_payload, signature, _auth_contexts) ==
  LET signer == get_signer(env, signature.id)
  IN  IF signer = None
      THEN Outcome("SignerNotFound", env, << "get_signer" >>)
      ELSE
      LET challenge == ChallengeOutcome[signature.client_data_json, signature_payload]
      IN  IF challenge # Ok
          THEN Outcome(challenge, env, << "get_signer", "verify_challenge" >>)
          ELSE IF ~secp256r1_verify(signer.public_key,
                                    sha256(<< signature.authenticator_data,
                                              sha256(signature.client_data_json) >>),
                                    signature.signature)
          THEN Outcome("ChallengeMismatch", env,
                       << "get_signer", "verify_challenge", "secp256r1_verify" >>)
          ELSE Outcome(Ok, extend_signer_ttl(env, signature.id, signer.kind),
                       << "get_signer", "verify_challenge", "secp256r1_verify",
                          "extend_signer_ttl" >>)

__check_auth(env, signature_payload, signature, _auth_contexts) ==
  LET signer == get_signer(env, signature.id)
  IN  IF signer = None
      THEN Outcome("SignerNotFound", env, << "get_signer" >>)
      ELSE
      LET challenge == ChallengeOutcome[signature.client_data_json, signature_payload]
      IN  IF challenge # Ok
          THEN Outcome(challenge, env, << "get_signer", "verify_challenge" >>)
          ELSE
          LET client_data_hash == sha256(signature.client_data_json)
              signed_data == << signature.authenticator_data, client_data_hash >>
              message_hash == sha256(signed_data)
          IN  IF ~secp256r1_verify(signer.public_key, message_hash, signature.signature)
              THEN Outcome(HostTrap, env,
                           << "get_signer", "verify_challenge", "secp256r1_verify" >>)
              ELSE Outcome(Ok, extend_signer_ttl(env, signature.id, signer.kind),
                           << "get_signer", "verify_challenge", "secp256r1_verify",
                              "extend_signer_ttl" >>)

\* env.current_contract_address().require_auth(): the host runs __check_auth
\* on the authorization entry the transaction carries for the wallet.
require_auth(env, entry) ==
  __check_auth(env, entry.signature_payload, entry.signature, entry.auth_contexts)

(***************************************************************************)
(* SmartWallet entry points.  Each yields [result, env]; env is the ledger *)
(* view after the invocation, the unchanged one when it fails.             *)
(***************************************************************************)
Return(result, env) == [result |-> result, env |-> env]

\* init without the guard against re-initialization.
init_Reinit(env, credential_id, public_key) ==
  IF validate_public_key(public_key) # Ok
  THEN Return("InvalidPublicKey", env)
  ELSE Return(Ok,
         [env EXCEPT
            !.instance = (WalletAddress :> current_contract_address) @@ @,
            !.persistent =
               extend_ttl(set(@, credential_id, Signer(public_key, Admin), env.ledger),
                          credential_id, env.ledger,
                          ADMIN_TTL_THRESHOLD, ADMIN_TTL_EXTEND),
            !.instance_live =
               extend_live(@, env.ledger, ADMIN_TTL_THRESHOLD, ADMIN_TTL_EXTEND)])

\* init that registers the first signer as a session signer.
init_AsSession(env, credential_id, public_key) ==
  IF WalletAddress \in DOMAIN env.instance
  THEN Return("AlreadyInitialized", env)
  ELSE IF validate_public_key(public_key) # Ok
  THEN Return("InvalidPublicKey", env)
  ELSE Return(Ok,
         [env EXCEPT
            !.instance = (WalletAddress :> current_contract_address) @@ @,
            !.temporary =
               extend_ttl(set(@, credential_id, Signer(public_key, Session), env.ledger),
                          credential_id, env.ledger,
                          SESSION_TTL_THRESHOLD, SESSION_TTL_EXTEND),
            !.instance_live =
               extend_live(@, env.ledger, ADMIN_TTL_THRESHOLD, ADMIN_TTL_EXTEND)])

init(env, credential_id, public_key) ==
  IF WalletAddress \in DOMAIN env.instance
  THEN Return("AlreadyInitialized", env)
  ELSE IF validate_public_key(public_key) # Ok
  THEN Return("InvalidPublicKey", env)
  ELSE Return(Ok,
         [env EXCEPT
            !.instance = (WalletAddress :> current_contract_address) @@ @,
            !.persistent =
               extend_ttl(set(@, credential_id, Signer(public_key, Admin), env.ledger),
                          credential_id, env.ledger,
                          ADMIN_TTL_THRESHOLD, ADMIN_TTL_EXTEND),
            !.instance_live =
               extend_live(@, env.ledger, ADMIN_TTL_THRESHOLD, ADMIN_TTL_EXTEND)])

\* add_signer without require_auth.
add_signer_NoAuth(env, entry, credential_id, public_key) ==
  IF validate_public_key(public_key) # Ok
  THEN Return("InvalidPublicKey", env)
  ELSE IF has(env.persistent, credential_id)
  THEN Return("SignerAlreadyExists", env)
  ELSE Return(Ok,
         [env EXCEPT
            !.persistent =
               extend_ttl(set(@, credential_id, Signer(public_key, Admin), env.ledger),
                          credential_id, env.ledger,
                          ADMIN_TTL_THRESHOLD, ADMIN_TTL_EXTEND)])

\* add_signer without the duplicate check: the entry is overwritten.
add_signer_Overwrite(env, entry, credential_id, public_key) ==
  LET auth == require_auth(env, entry)
  IN  IF auth.result # Ok THEN Return(AuthFailed, env)
      ELSE IF validate_public_key(public_key) # Ok
      THEN Return("InvalidPublicKey", env)
      ELSE Return(Ok,
             [auth.env EXCEPT
                !.persistent =
                   extend_ttl(set(@, credential_id, Signer(public_key, Admin), env.ledger),
                              credential_id, env.ledger,
                              ADMIN_TTL_THRESHOLD, ADMIN_TTL_EXTEND)])

add_signer(env, entry, credential_id, public_key) ==
  LET auth == require_auth(env, entry)
  IN  IF auth.result # Ok THEN Return(AuthFailed, env)
      ELSE IF validate_public_key(public_key) # Ok
      THEN Return("InvalidPublicKey", env)
      ELSE IF has(auth.env.persistent, credential_id)
      THEN Return("SignerAlreadyExists", env)
      ELSE Return(Ok,
             [auth.env EXCEPT
                !.persistent =
                   extend_ttl(set(@, credential_id, Signer(public_key, Admin), env.ledger),
                              credential_id, env.ledger,
                              ADMIN_TTL_THRESHOLD, ADMIN_TTL_EXTEND)])

\* add_session_signer whose duplicate check looks at the persistent tier only.
add_session_signer_PersistentOnly(env, entry, credential_id, public_key) ==
  LET auth == require_auth(env, entry)
  IN  IF auth.result # Ok THEN Return(AuthFailed, env)
      ELSE IF validate_public_key(public_key) # Ok
      THEN Return("InvalidPublicKey", env)
      ELSE IF has(auth.env.persistent, credential_id)
      THEN Return("SignerAlreadyExists", env)
      ELSE Return(Ok,
             [auth.env EXCEPT
                !.temporary =
                   extend_ttl(set(@, credential_id, Signer(public_key, Session), env.ledger),
                              credential_id, env.ledger,
                              SESSION_TTL_THRESHOLD, SESSION_TTL_EXTEND)])

\* add_session_signer that stores the signer in the persistent tier.
add_session_signer_ToPersistent(env, entry, credential_id, public_key) ==
  LET auth == require_auth(env, entry)
  IN  IF auth.result # Ok THEN Return(AuthFailed, env)
      ELSE IF validate_public_key(public_key) # Ok
      THEN Return("InvalidPublicKey", env)
      ELSE IF has(auth.env.persistent, credential_id)
              \/ has(auth.env.temporary, credential_id)
      THEN Return("SignerAlreadyExists", env)
      ELSE Return(Ok,
             [auth.env EXCEPT
                !.persistent =
                   extend_ttl(set(@, credential_id, Signer(public_key, Session), env.ledger),
                              credential_id, env.ledger,
                              SESSION_TTL_THRESHOLD, SESSION_TTL_EXTEND)])

add_session_signer(env, entry, credential_id, public_key) ==
  LET auth == require_auth(env, entry)
  IN  IF auth.result # Ok THEN Return(AuthFailed, env)
      ELSE IF validate_public_key(public_key) # Ok
      THEN Return("InvalidPublicKey", env)
      ELSE IF has(auth.env.persistent, credential_id)
              \/ has(auth.env.temporary, credential_id)
      THEN Return("SignerAlreadyExists", env)
      ELSE Return(Ok,
             [auth.env EXCEPT
                !.temporary =
                   extend_ttl(set(@, credential_id, Signer(public_key, Session), env.ledger),
                              credential_id, env.ledger,
                              SESSION_TTL_THRESHOLD, SESSION_TTL_EXTEND)])

\* remove_signer that deletes the credential's entries of both tiers.
remove_signer_BothTiers(env, entry, credential_id) ==
  LET auth == require_auth(env, entry)
  IN  IF auth.result # Ok THEN Return(AuthFailed, env)
      ELSE IF has(auth.env.persistent, credential_id)
              \/ has(auth.env.temporary, credential_id)
      THEN Return(Ok, [auth.env EXCEPT !.persistent = remove(@, credential_id),
                                       !.temporary = remove(@, credential_id)])
      ELSE Return("SignerNotFound", env)

remove_signer(env, entry, credential_id) ==
  LET auth == require_auth(env, entry)
  IN  IF auth.result # Ok THEN Return(AuthFailed, env)
      ELSE IF has(auth.env.persistent, credential_id)
      THEN Return(Ok, [auth.env EXCEPT !.persistent = remove(@, credential_id)])
      ELSE IF has(auth.env.temporary, credential_id)
      THEN Return(Ok, [auth.env EXCEPT !.temporary = remove(@, credential_id)])
      ELSE Return("SignerNotFound", env)

(***************************************************************************)
(* Factory (factory.rs).  fenv is the factory's view of the ledger:        *)
(* [address, instance, persistent, wallets, ledger], where address is the  *)
(* factory's own address, persistent maps a credential id (key             *)
(* Deployed(credential_id)) to its entry and wallets maps a contract       *)
(* address to the storage of the wallet deployed there.                    *)
(* Each entry point yields [result, env, value]; a panic is HostTrap and   *)
(* leaves the view it was given.                                           *)
(***************************************************************************)
DEPLOYED_TTL_THRESHOLD == 60480
DEPLOYED_TTL_EXTEND == 120960

\* FactoryDataKey::WalletWasmHash: the instance-tier key.
WalletWasmHash == "WalletWasmHash"

\* env.current_contract_address() inside the factory.
factory_address == "factory"

\* The address the host derives for env.deployer().with_current_contract(salt).
contract_address(deployer_contract, salt) ==
  [deployer |-> deployer_contract, salt |-> salt]

WalletAddresses == {contract_address(factory_address, sha256(c)) : c \in Creds}

\* Storage of the factory contract right after it was deployed.
NewFactory == [instance |-> << >>, persistent |-> [c \in Creds |-> None]]

\* Storage of a wallet contract right after the host created it.
NewWallet(now) ==
  [instance |-> << >>, instance_live |-> now,
   persistent |-> [c \in Creds |-> None], temporary |-> [c \in Creds |-> None]]

\* The view a wallet contract has of its storage at ledger now, and back.
WalletEnv(storage, now) ==
  [instance |-> storage.instance, instance_live |-> storage.instance_live,
   persistent |-> storage.persistent, temporary |-> storage.temporary,
   ledger |-> now]

WalletStorage(env) ==
  [instance |-> env.instance, instance_live |-> env.instance_live,
   persistent |-> env.persistent, temporary |-> env.temporary]

Reply(result, env, value) == [result |-> result, env |-> env, value |-> value]

\* Factory.init without the guard: a later call replaces the stored hash.
Factory_init_Overwrite(fenv, wallet_wasm_hash) ==
  Reply(Ok,
        [fenv EXCEPT !.instance =
           [k \in DOMAIN @ \cup {WalletWasmHash} |->
              IF k = WalletWasmHash THEN wallet_wasm_hash ELSE @[k]]],
        None)

Factory_init(fenv, wallet_wasm_hash) ==
  IF WalletWasmHash \in DOMAIN fenv.instance
  THEN Reply(HostTrap, fenv, None)
  ELSE Reply(Ok, [fenv EXCEPT !.instance = (WalletWasmHash :> wallet_wasm_hash) @@ @],
             None)

\* deploy that records the deployment without extending the entry's TTL.
deploy_NoExtend(fenv, signers, deployer, credential_id, public_key) ==
  IF deployer \notin signers THEN Reply(AuthFailed, fenv, None)
  ELSE IF WalletWasmHash \notin DOMAIN fenv.instance THEN Reply(HostTrap, fenv, None)
  ELSE
  LET salt == sha256(credential_id)
      wallet_address == contract_address(fenv.address, salt)
  IN  IF fenv.wallets[wallet_address] # None THEN Reply(HostTrap, fenv, None)
      ELSE
      LET r == init(WalletEnv(NewWallet(fenv.ledger), fenv.ledger),
                    credential_id, public_key)
      IN  IF r.result # Ok THEN Reply(HostTrap, fenv, None)
          ELSE Reply(Ok,
                 [fenv EXCEPT
                    !.wallets[wallet_address] = WalletStorage(r.env),
                    !.persistent = set(@, credential_id, wallet_address, fenv.ledger)],
                 wallet_address)

\* deploy that hashes an empty buffer instead of the credential id.
deploy_EmptySalt(fenv, signers, deployer, credential_id, public_key) ==
  IF deployer \notin signers THEN Reply(AuthFailed, fenv, None)
  ELSE IF WalletWasmHash \notin DOMAIN fenv.instance THEN Reply(HostTrap, fenv, None)
  ELSE
  LET salt == sha256(<< >>)
      wallet_address == contract_address(fenv.address, salt)
  IN  IF wallet_address \in DOMAIN fenv.wallets /\ fenv.wallets[wallet_address] # None
      THEN Reply(HostTrap, fenv, None)
      ELSE
      LET r == init(WalletEnv(NewWallet(fenv.ledger), fenv.ledger),
                    credential_id, public_key)
      IN  IF r.result # Ok THEN Reply(HostTrap, fenv, None)
          ELSE Reply(Ok,
                 [fenv EXCEPT
                    !.wallets = (wallet_address :> WalletStorage(r.env)) @@ @,
                    !.persistent =
                       extend_ttl(set(@, credential_id, wallet_address, fenv.ledger),
                                  credential_id, fenv.ledger,
                                  DEPLOYED_TTL_THRESHOLD, DEPLOYED_TTL_EXTEND)],
                 wallet_address)

\* deploy that computes the salt from the public key instead of the
\* credential id.
deploy_SaltFromKey(fenv, signers, deployer, credential_id, public_key) ==
  IF deployer \notin signers THEN Reply(AuthFailed, fenv, None)
  ELSE IF WalletWasmHash \notin DOMAIN fenv.instance THEN Reply(HostTrap, fenv, None)
  ELSE
  LET salt == sha256(public_key)
      wallet_address == contract_address(fenv.address, salt)
  IN  IF wallet_address \in DOMAIN fenv.wallets /\ fenv.wallets[wallet_address] # None
      THEN Reply(HostTrap, fenv, None)
      ELSE
      LET r == init(WalletEnv(NewWallet(fenv.ledger), fenv.ledger),
                    credential_id, public_key)
      IN  IF r.result # Ok THEN Reply(HostTrap, fenv, None)
          ELSE Reply(Ok,
                 [fenv EXCEPT
                    !.wallets = (wallet_address :> WalletStorage(r.env)) @@ @,
                    !.persistent =
                       extend_ttl(set(@, credential_id, wallet_address, fenv.ledger),
                                  credential_id, fenv.ledger,
                                  DEPLOYED_TTL_THRESHOLD, DEPLOYED_TTL_EXTEND)],
                 wallet_address)

\* deploy that falls back on a default hash when none is stored.
deploy_DefaultHash(fenv, signers, deployer, credential_id, public_key) ==
  IF deployer \notin signers THEN Reply(AuthFailed, fenv, None)
  ELSE
  LET salt == sha256(credential_id)
      wallet_address == contract_address(fenv.address, salt)
  IN  IF fenv.wallets[wallet_address] # None THEN Reply(HostTrap, fenv, None)
      ELSE
      LET r == init(WalletEnv(NewWallet(fenv.ledger), fenv.ledger),
                    credential_id, public_key)
      IN  IF r.result # Ok THEN Reply(HostTrap, fenv, None)
          ELSE Reply(Ok,
                 [fenv EXCEPT
                    !.wallets[wallet_address] = WalletStorage(r.env),
                    !.persistent =
                       extend_ttl(set(@, credential_id, wallet_address, fenv.ledger),
                                  credential_id, fenv.ledger,
                                  DEPLOYED_TTL_THRESHOLD, DEPLOYED_TTL_EXTEND)],
                 wallet_address)

\* deploy that goes on when the address already holds a wallet and ignores
\* the error of the cross-call to init (try_invoke_contract).
deploy_IgnoreInitError(fenv, signers, deployer, credential_id, public_key) ==
  IF deployer \notin signers THEN Reply(AuthFailed, fenv, None)
  ELSE IF WalletWasmHash \notin DOMAIN fenv.instance THEN Reply(HostTrap, fenv, None)
  ELSE
  LET salt == sha256(credential_id)
      wallet_address == contract_address(fenv.address, salt)
      storage == IF fenv.wallets[wallet_address] # None
                 THEN fenv.wallets[wallet_address] ELSE NewWallet(fenv.ledger)
      r == init(WalletEnv(storage, fenv.ledger), credential_id, public_key)
  IN  Reply(Ok,
            [fenv EXCEPT
               !.wallets[wallet_address] = WalletStorage(r.env),
               !.persistent =
                  extend_ttl(set(@, credential_id, wallet_address, fenv.ledger),
                             credential_id, fenv.ledger,
                             DEPLOYED_TTL_THRESHOLD, DEPLOYED_TTL_EXTEND)],
            wallet_address)

\* deploy that derives the wallet address from the deployer account instead
\* of the factory (env.deployer().with_address(deployer, salt)).
deploy_WithDeployerAddress(fenv, signers, deployer, credential_id, public_key) ==
  IF deployer \notin signers THEN Reply(AuthFailed, fenv, None)
  ELSE IF WalletWasmHash \notin DOMAIN fenv.instance THEN Reply(HostTrap, fenv, None)
  ELSE
  LET salt == sha256(credential_id)
      wallet_address == contract_address(deployer, salt)
  IN  IF wallet_address \in DOMAIN fenv.wallets /\ fenv.wallets[wallet_address] # None
      THEN Reply(HostTrap, fenv, None)
      ELSE
      LET r == init(WalletEnv(NewWallet(fenv.ledger), fenv.ledger),
                    credential_id, public_key)
      IN  IF r.result # Ok THEN Reply(HostTrap, fenv, None)
          ELSE Reply(Ok,
                 [fenv EXCEPT
                    !.wallets = (wallet_address :> WalletStorage(r.env)) @@ @,
                    !.persistent =
                       extend_ttl(set(@, credential_id, wallet_address, fenv.ledger),
                                  credential_id, fenv.ledger,
                                  DEPLOYED_TTL_THRESHOLD, DEPLOYED_TTL_EXTEND)],
                 wallet_address)

\* deploy that calls init with try_invoke_contract and drops its error: the
\* wallet contract created for the credential stays, without a signer.
deploy_KeepUninitialized(fenv, signers, deployer, credential_id, public_key) ==
  IF deployer \notin signers THEN Reply(AuthFailed, fenv, None)
  ELSE IF WalletWasmHash \notin DOMAIN fenv.instance THEN Reply(HostTrap, fenv, None)
  ELSE
  LET salt == sha256(credential_id)
      wallet_address == contract_address(fenv.address, salt)
  IN  IF fenv.wallets[wallet_address] # None THEN Reply(HostTrap, fenv, None)
      ELSE
      LET r == init(WalletEnv(NewWallet(fenv.ledger), fenv.ledger),
                    credential_id, public_key)
      IN  Reply(Ok,
                [fenv EXCEPT
                   !.wallets[wallet_address] = WalletStorage(r.env),
                   !.persistent =
                      extend_ttl(set(@, credential_id, wallet_address, fenv.ledger),
                                 credential_id, fenv.ledger,
                                 DEPLOYED_TTL_THRESHOLD, DEPLOYED_TTL_EXTEND)],
                wallet_address)

\* deployer.require_auth() succeeds when the deployer is among the accounts
\* that signed the transaction (signers); deploying at an address that
\* holds a contract and a failing cross-call to init both trap.
deploy(fenv, signers, deployer, credential_id, public_key) ==
  IF deployer \notin signers THEN Reply(AuthFailed, fenv, None)
  ELSE IF WalletWasmHash \notin DOMAIN fenv.instance THEN Reply(HostTrap, fenv, None)
  ELSE
  LET salt == sha256(credential_id)
      wallet_address == contract_address(fenv.address, salt)
  IN  IF fenv.wallets[wallet_address] # None THEN Reply(HostTrap, fenv, None)
      ELSE
      LET r == init(WalletEnv(NewWallet(fenv.ledger), fenv.ledger),
                    credential_id, public_key)
      IN  IF r.result # Ok THEN Reply(HostTrap, fenv, None)
          ELSE Reply(Ok,
                 [fenv EXCEPT
                    !.wallets[wallet_address] = WalletStorage(r.env),
                    !.persistent =
                       extend_ttl(set(@, credential_id, wallet_address, fenv.ledger),
                                  credential_id, fenv.ledger,
                                  DEPLOYED_TTL_THRESHOLD, DEPLOYED_TTL_EXTEND)],
                 wallet_address)

\* get_wallet that answers with the address derived from the credential
\* without consulting the Deployed entries.
get_wallet_Derived(fenv, credential_id) ==
  Reply(Ok, fenv, contract_address(fenv.address, sha256(credential_id)))

get_wallet(fenv, credential_id) ==
  LET result == get(fenv.persistent, credential_id)
  IN  IF result # None
      THEN Reply(Ok,
             [fenv EXCEPT
                !.persistent = extend_ttl(@, credential_id, fenv.ledger,
                                          DEPLOYED_TTL_THRESHOLD, DEPLOYED_TTL_EXTEND)],
             result)
      ELSE Reply(Ok, fenv, None)

(***************************************************************************)
(* State machine.                                                          *)
(***************************************************************************)
\* The contract's view of the ledger in the current state.
Env == [instance |-> instance, instance_live |-> instance_live,
        persistent |-> persistent, temporary |-> temporary, ledger |-> ledger]

\* Commit the ledger view an invocation left.
Commit(env) ==
  /\ instance' = env.instance
  /\ instance_live' = env.instance_live
  /\ persistent' = env.persistent
  /\ temporary' = env.temporary
  /\ ledger' = env.ledger

NoCall == [op |-> "none"]

Init ==
  /\ instance = << >>
  /\ instance_live = 0
  /\ persistent = [c \in Creds |-> None]
  /\ temporary = [c \in Creds |-> None]
  /\ ledger = 0
  /\ last = NoCall
  /\ factory = NewFactory
  /\ wallets = [a \in WalletAddresses |-> None]
  /\ swap = << >>
  /\ limits = << >>
  /\ timestamp = 0

CallInit ==
  \E c \in Creds, k \in PublicKeys :
    LET r == init(Env, c, k)
    IN  /\ Commit(r.env)
        /\ last' = [op |-> "init", credential_id |-> c, result |-> r.result]
        /\ UNCHANGED <<swap, limits, timestamp, factory, wallets>>

CallAddSigner ==
  \E c \in Creds, k \in PublicKeys, e \in AuthEntries :
    LET r == add_signer(Env, e, c, k)
    IN  /\ Commit(r.env)
        /\ last' = [op |-> "add_signer", credential_id |-> c,
                    authorized |-> (require_auth(Env, e).result = Ok),
                    result |-> r.result]
        /\ UNCHANGED <<swap, limits, timestamp, factory, wallets>>

CallAddSessionSigner ==
  \E c \in Creds, k \in PublicKeys, e \in AuthEntries :
    LET r == add_session_signer(Env, e, c, k)
    IN  /\ Commit(r.env)
        /\ last' = [op |-> "add_session_signer", credential_id |-> c,
                    authorized |-> (require_auth(Env, e).result = Ok),
                    result |-> r.result]
        /\ UNCHANGED <<swap, limits, timestamp, factory, wallets>>

CallRemoveSigner ==
  \E c \in Creds, e \in AuthEntries :
    LET r == remove_signer(Env, e, c)
    IN  /\ Commit(r.env)
        /\ last' = [op |-> "remove_signer", credential_id |-> c,
                    authorized |-> (require_auth(Env, e).result = Ok),
                    result |-> r.result]
        /\ UNCHANGED <<swap, limits, timestamp, factory, wallets>>

\* The host asks the wallet to authorize an invocation.
CallCheckAuth ==
  \E p \in Payloads, a \in Assertions, x \in AuthContexts :
    LET r == __check_auth(Env, p, a, x)
    IN  /\ Commit(r.env)
        /\ last' = [op |-> "__check_auth", credential_id |-> a.id,
                    result |-> r.result, steps |-> r.steps]
        /\ UNCHANGED <<swap, limits, timestamp, factory, wallets>>

\* Ledgers close; the host drops temporary entries past their live-until.
\* (Persistent and instance entries outlive MaxLedger.)
\* A jump that leaves a session entry below its threshold, and one that
\* takes it past its lifetime.
LedgerJumps == {SESSION_TTL_THRESHOLD + 1, SESSION_TTL_EXTEND + 1}

AdvanceLedger ==
  \E d \in LedgerJumps :
    /\ ledger + d <= MaxLedger
    /\ ledger' = ledger + d
    /\ temporary' = [c \in Creds |->
                       IF temporary[c] # None /\ temporary[c].live_until < ledger + d
                       THEN None ELSE temporary[c]]
    /\ last' = [op |-> "advance_ledger"]
    /\ UNCHANGED <<swap, limits, timestamp, instance, instance_live, persistent, factory, wallets>>

Next ==
  \/ CallInit
  \/ CallAddSigner
  \/ CallAddSessionSigner
  \/ CallRemoveSigner
  \/ CallCheckAuth
  \/ AdvanceLedger

Spec == Init /\ [][Next]_vars

(***************************************************************************)
(* State machine of a factory and the wallets it deploys.  The wallet of   *)
(* the variables instance .. temporary is not part of it and stays as it   *)
(* was constructed.                                                        *)
(***************************************************************************)
\* Ledger sequence numbers explored here are 0 .. MaxFactoryLedger.
MaxFactoryLedger == 60481

\* wallet_wasm_hash values, deployer accounts and sets of transaction signers.
WasmHashes == {"wasm1", "wasm2"}
Deployers == {"alice", "bob"}
TxSigners == {{"alice"}, {"bob"}}

\* Keys given to deploy and to the deployed wallets: one well-formed key
\* and the malformed one.
FactoryKeys == {dummy_public_key(1), invalid_public_key}

\* The factory's view of the ledger in the current state.
FEnv == [address |-> factory_address, instance |-> factory.instance,
         persistent |-> factory.persistent, wallets |-> wallets, ledger |-> ledger]

FactoryCommit(fenv) ==
  /\ factory' = [instance |-> fenv.instance, persistent |-> fenv.persistent]
  /\ wallets' = fenv.wallets
  /\ ledger' = fenv.ledger

\* The addresses that hold a deployed wallet.
DeployedWallets == {w \in WalletAddresses : wallets[w] # None}

CallFactoryInit ==
  \E h \in WasmHashes :
    LET r == Factory_init(FEnv, h)
    IN  /\ FactoryCommit(r.env)
        /\ last' = [op |-> "Factory.init", result |-> r.result]
        /\ UNCHANGED <<swap, limits, timestamp, instance, instance_live, persistent, temporary>>

CallDeploy ==
  \E s \in TxSigners, d \in Deployers, c \in Creds, k \in FactoryKeys :
    LET r == deploy(FEnv, s, d, c, k)
    IN  /\ FactoryCommit(r.env)
        /\ last' = [op |-> "deploy", credential_id |-> c, result |-> r.result,
                    value |-> r.value]
        /\ UNCHANGED <<swap, limits, timestamp, instance, instance_live, persistent, temporary>>

CallGetWallet ==
  \E c \in Creds :
    LET r == get_wallet(FEnv, c)
    IN  /\ FactoryCommit(r.env)
        /\ last' = [op |-> "get_wallet", credential_id |-> c, result |-> r.result,
                    value |-> r.value]
        /\ UNCHANGED <<swap, limits, timestamp, instance, instance_live, persistent, temporary>>

\* Invocations of a deployed wallet.
WalletAddSigner ==
  \E w \in DeployedWallets, c \in Creds, k \in FactoryKeys, e \in AuthEntries :
    LET r == add_signer(WalletEnv(wallets[w], ledger), e, c, k)
    IN  /\ wallets' = [wallets EXCEPT ![w] = WalletStorage(r.env)]
        /\ last' = [op |-> "add_signer", credential_id |-> c, result |-> r.result]
        /\ UNCHANGED <<swap, limits, timestamp,
                       instance, instance_live, persistent, temporary, ledger, factory>>

WalletAddSessionSigner ==
  \E w \in DeployedWallets, c \in Creds, k \in FactoryKeys, e \in AuthEntries :
    LET r == add_session_signer(WalletEnv(wallets[w], ledger), e, c, k)
    IN  /\ wallets' = [wallets EXCEPT ![w] = WalletStorage(r.env)]
        /\ last' = [op |-> "add_session_signer", credential_id |-> c, result |-> r.result]
        /\ UNCHANGED <<swap, limits, timestamp,
                       instance, instance_live, persistent, temporary, ledger, factory>>

WalletCheckAuth ==
  \E w \in DeployedWallets, a \in Assertions, x \in AuthContexts :
    LET r == __check_auth(WalletEnv(wallets[w], ledger), PayloadZero, a, x)
    IN  /\ wallets' = [wallets EXCEPT ![w] = WalletStorage(r.env)]
        /\ last' = [op |-> "__check_auth", credential_id |-> a.id,
                    result |-> r.result]
        /\ UNCHANGED <<swap, limits, timestamp,
                       instance, instance_live, persistent, temporary, ledger, factory>>

\* Temporary entries of a tier that are past their live-until at ledger now
\* are dropped.
Expire(tier, now) ==
  [c \in DOMAIN tier |->
     IF tier[c] # None /\ tier[c].live_until < now THEN None ELSE tier[c]]

\* Ledgers close: a jump that leaves an admin entry or a factory entry
\* below its threshold (and takes a session entry past its lifetime).
\* (Persistent and instance entries outlive MaxFactoryLedger.)
FactoryLedgerJumps == {ADMIN_TTL_THRESHOLD + 1}

AdvanceFactoryLedger ==
  \E d \in FactoryLedgerJumps :
    /\ ledger + d <= MaxFactoryLedger
    /\ ledger' = ledger + d
    /\ wallets' = [w \in WalletAddresses |->
                     IF wallets[w] = None THEN None
                     ELSE [wallets[w] EXCEPT !.temporary = Expire(@, ledger + d)]]
    /\ last' = [op |-> "advance_ledger"]
    /\ UNCHANGED <<swap, limits, timestamp,
                   instance, instance_live, persistent, temporary, factory>>

FactoryNext ==
  \/ CallFactoryInit
  \/ CallDeploy
  \/ CallGetWallet
  \/ WalletAddSigner
  \/ WalletAddSessionSigner
  \/ WalletCheckAuth
  \/ AdvanceFactoryLedger

FactorySpec == Init /\ [][FactoryNext]_vars

\* The address of a second factory contract.
other_factory_address == "factory2"

\* A factory contract at the given address, initialized with the given hash
\* on a ledger where it has deployed nothing yet.
FreshFactoryEnv(address, wallet_wasm_hash, now) ==
  [address |-> address, instance |-> (WalletWasmHash :> wallet_wasm_hash),
   persistent |-> NewFactory.persistent,
   wallets |-> [a \in {contract_address(address, sha256(c)) : c \in Creds} |-> None],
   ledger |-> now]

(***************************************************************************)
(* State machine of the wallet over the lifetime of an admin signer: the   *)
(* same invocations, with ledger jumps that take a session entry to its    *)
(* last ledger and an admin entry below its threshold.                     *)
(***************************************************************************)
\* Ledger sequence numbers explored here are 0 .. MaxLongLedger.
MaxLongLedger == 60481

\* (Persistent and instance entries outlive MaxLongLedger.)
LongLedgerJumps == {SESSION_TTL_EXTEND, ADMIN_TTL_THRESHOLD + 1}

AdvanceLedgerLong ==
  \E d \in LongLedgerJumps :
    /\ ledger + d <= MaxLongLedger
    /\ ledger' = ledger + d
    /\ temporary' = Expire(temporary, ledger + d)
    /\ last' = [op |-> "advance_ledger"]
    /\ UNCHANGED <<swap, limits, timestamp, instance, instance_live, persistent, factory, wallets>>

TtlNext ==
  \/ CallInit
  \/ CallAddSigner
  \/ CallAddSessionSigner
  \/ CallCheckAuth
  \/ AdvanceLedgerLong

TtlSpec == Init /\ [][TtlNext]_vars

(***************************************************************************)
(* base64url_encode applied to byte strings: the state holds, in last, the *)
(* input drawn and then the output computed for it.  The contracts of the  *)
(* other variables stay as they were constructed.                          *)
(***************************************************************************)
\* Every byte string of length 0 .. MaxInputLen over the bytes 0x00, 0x69,
\* 0xFB and 0xFF is encoded.
MaxInputLen == 3

\* tests.rs test_base64url_encode_known_vector: SHA-256("").
KnownInput ==
  << 227, 176, 196, 66, 152, 252, 28, 20, 154, 251, 244, 200, 153, 111, 185, 36,
     39, 174, 65, 228, 100, 155, 147, 76, 164, 149, 153, 27, 120, 82, 184, 85 >>

\* b"47DEQpj8HBSa-_TImW-5JCeuQeRkm5NMpJWZG3hSuFU"
KnownOutput ==
  << 52, 55, 68, 69, 81, 112, 106, 56, 72, 66, 83, 97, 45, 95, 84, 73, 109, 87, 45,
     53, 74, 67, 101, 117, 81, 101, 82, 107, 109, 53, 78, 77, 112, 74, 87, 90, 71,
     51, 104, 83, 117, 70, 85 >>

\* The 48 bytes whose 6-bit groups are 0, 1, .., 63.
AlphabetInput ==
  << 0, 16, 131, 16, 81, 135, 32, 146, 139, 48, 211, 143, 65, 20, 147, 81, 85, 151,
     97, 150, 155, 113, 215, 159, 130, 24, 163, 146, 89, 167, 162, 154, 171, 178,
     219, 175, 195, 28, 179, 211, 93, 183, 227, 158, 187, 243, 223, 191 >>

\* The short strings, the 32-byte payloads and test vector, and strings of
\* 31, 33, 48, 64 and 65 bytes.
EncodeInputs ==
  UNION {[1..n -> {0, 105, 251, 255}] : n \in 0..MaxInputLen}
    \cup {PayloadZero, PayloadFF, KnownInput, AlphabetInput,
          SubSeq(KnownInput, 1, 31), KnownInput \o << 255 >>,
          KnownInput \o PayloadFF, KnownInput \o PayloadFF \o << 0 >>}

EncodeInit ==
  /\ \E x \in EncodeInputs : last = [op |-> "input", input |-> x]
  /\ instance = << >>
  /\ instance_live = 0
  /\ persistent = [c \in Creds |-> None]
  /\ temporary = [c \in Creds |-> None]
  /\ ledger = 0
  /\ factory = NewFactory
  /\ wallets = [a \in WalletAddresses |-> None]
  /\ swap = << >>
  /\ limits = << >>
  /\ timestamp = 0

CallEncode ==
  /\ last.op = "input"
  /\ last' = [op |-> "base64url_encode", input |-> last.input,
              output |-> base64url_encode(last.input)]
  /\ UNCHANGED <<swap, limits, timestamp, instance, instance_live, persistent, temporary, ledger,
                 factory, wallets>>

EncodeSpec == EncodeInit /\ [][CallEncode]_vars

(***************************************************************************)
(* Vocabulary of the properties.                                           *)
(***************************************************************************)
\* The initialized marker of the wallet is set.
Initialized == WalletAddress \in DOMAIN instance

\* Credential c has an entry in one of the signer tiers.
Registered(c) == has(persistent, c) \/ has(temporary, c)

\* The credentials holding an Admin signer in persistent storage.
AdminSigners ==
  {c \in Creds : has(persistent, c) /\ persistent[c].value.kind = Admin}

\* The signer registry without lifetimes: what each credential maps to in
\* each tier.
SignerSet == [c \in Creds |-> << get(persistent, c), get(temporary, c) >>]

EntryPoints ==
  {"init", "add_signer", "add_session_signer", "remove_signer", "__check_auth"}

SignerOps == {"add_signer", "add_session_signer", "remove_signer"}

\* The entry authorizes the wallet in the current state.
Authorizes(e) == require_auth(Env, e).result = Ok

\* base64url_no_pad of each payload of the model.
Encoded == [p \in Payloads |-> base64url_encode(p)]

\* The blob holds the needle followed by exactly the bytes ch and a '"'.
ContainsChallenge(json, ch) ==
  \E i \in 0..(Len(json) - Len(needle) - Len(ch) - 1) :
    /\ SubSeq(json, i + 1, i + Len(needle)) = needle
    /\ SubSeq(json, i + Len(needle) + 1, i + Len(needle) + Len(ch)) = ch
    /\ json[i + Len(needle) + Len(ch) + 1] = 34

\* The host primitive accepts the assertion's signature over
\* SHA256(authenticator_data || SHA256(client_data_json)) under the key
\* stored for the assertion's credential in the given tier.
SignatureAcceptedIn(tier, a) ==
  /\ has(tier, a.id)
  /\ secp256r1_verify(tier[a.id].value.public_key,
                      SignedDigest(a.authenticator_data, a.client_data_json),
                      a.signature)

(***************************************************************************)
(* C1.  After a successful init the wallet always holds at least one Admin *)
(* signer in persistent storage: no operation reduces their number to 0.   *)
(***************************************************************************)
C1_AdminSignerAlwaysHeld == Initialized => Cardinality(AdminSigners) >= 1

(***************************************************************************)
(* C2.  An authorized remove_signer(c) when c is the only Admin signer     *)
(* fails with LastAdminSigner (code 3) and leaves the registry unchanged.  *)
(***************************************************************************)
C2_LastAdminRemovalRejected ==
  [][(/\ last'.op = "remove_signer"
      /\ last'.authorized
      /\ AdminSigners = {last'.credential_id})
     => /\ last'.result = "LastAdminSigner"
        /\ WalletError[last'.result] = 3
        /\ persistent' = persistent
        /\ temporary' = temporary]_vars

(***************************************************************************)
(* C3.  In every reachable state each credential id has an entry in at     *)
(* most one of the persistent and the temporary tier.                      *)
(***************************************************************************)
C3_UniqueAcrossTiers ==
  \A c \in Creds : ~(has(persistent, c) /\ has(temporary, c))

(***************************************************************************)
(* C4.  Right after a successful add_signer(c) or add_session_signer(c)    *)
(* no __check_auth naming c returns SignerNotFound; right after a          *)
(* successful remove_signer(c) every __check_auth naming c returns         *)
(* SignerNotFound.                                                         *)
(***************************************************************************)
C4_ResolvesUntilRemoved ==
  /\ (last.op \in {"add_signer", "add_session_signer"} /\ last.result = Ok)
       => \A p \in Payloads, a \in Assertions :
            a.id = last.credential_id
              => __check_auth(Env, p, a, << >>).result # "SignerNotFound"
  /\ (last.op = "remove_signer" /\ last.result = Ok)
       => \A p \in Payloads, a \in Assertions :
            a.id = last.credential_id
              => __check_auth(Env, p, a, << >>).result = "SignerNotFound"

(***************************************************************************)
(* C5.  init succeeds only on a wallet without the initialized marker and  *)
(* sets it; the marker is never unset; once it is set every init call,     *)
(* with any credential and key, returns AlreadyInitialized (code 5) and    *)
(* changes neither the signer tiers nor the instance entries.              *)
(***************************************************************************)
C5_InitOnlyOnce ==
  [][/\ (last'.op = "init" /\ last'.result = Ok) => (~Initialized /\ Initialized')
     /\ Initialized =>
          /\ Initialized'
          /\ last'.op = "init" =>
               /\ last'.result = "AlreadyInitialized"
               /\ WalletError[last'.result] = 5
               /\ UNCHANGED <<instance, instance_live, persistent, temporary>>]_vars

C5_Witness ==
  /\ last.op = "init"
  /\ last.result = "AlreadyInitialized"
  /\ ~has(persistent, last.credential_id)

(***************************************************************************)
(* C6.  After init, an invocation of the wallet changes the signer set     *)
(* only if it is add_signer, add_session_signer or remove_signer and the   *)
(* wallet's authorization (__check_auth on the entry) succeeded; such a    *)
(* call without authorization leaves both signer tiers unchanged.          *)
(* (Ledger steps are not invocations.)                                     *)
(***************************************************************************)
C6_SignersChangeOnlyWhenAuthorized ==
  [][(Initialized /\ last'.op \in EntryPoints)
     => /\ SignerSet' # SignerSet
             => (last'.op \in SignerOps /\ last'.authorized /\ last'.result = Ok)
        /\ (last'.op \in SignerOps /\ ~last'.authorized)
             => (persistent' = persistent /\ temporary' = temporary)]_vars

C6_Witness ==
  /\ Initialized
  /\ last.op \in SignerOps
  /\ ~last.authorized
  /\ last.result = AuthFailed
  /\ ~Registered(last.credential_id)

(***************************************************************************)
(* C7.  __check_auth returns ok only if the assertion's id is a registered *)
(* signer, client_data_json carries the challenge                          *)
(* base64url_no_pad(signature_payload), and the host primitive accepts the *)
(* signature over SHA256(authenticator_data || SHA256(client_data_json))   *)
(* under a key stored for that signer.                                     *)
(***************************************************************************)
C7_AcceptsOnlyBoundAssertions ==
  \A p \in Payloads, a \in Assertions, x \in AuthContexts :
    __check_auth(Env, p, a, x).result = Ok
      => /\ Registered(a.id)
         /\ ContainsChallenge(a.client_data_json, Encoded[p])
         /\ SignatureAcceptedIn(persistent, a) \/ SignatureAcceptedIn(temporary, a)

C7_Witness ==
  /\ last.op = "__check_auth"
  /\ last.result = Ok
  /\ \E c \in Creds : ~Registered(c)

(***************************************************************************)
(* C8.  __check_auth runs resolve-signer, challenge-binding, signature     *)
(* verification and TTL refresh in this order and stops at the first step  *)
(* that fails: the outcome is that of the earliest failing step, the       *)
(* signature primitive is not invoked and nothing is extended or written   *)
(* when an earlier step failed.                                            *)
(***************************************************************************)
\* The key the lookup resolves for the assertion (persistent tier first).
ResolvedKey(a) ==
  IF has(persistent, a.id) THEN persistent[a.id].value.public_key
  ELSE temporary[a.id].value.public_key

ExpectedOutcome(p, a) ==
  IF ~Registered(a.id) THEN "SignerNotFound"
  ELSE IF ChallengeOutcome[a.client_data_json, p] # Ok
  THEN ChallengeOutcome[a.client_data_json, p]
  ELSE IF ~secp256r1_verify(ResolvedKey(a),
                            SignedDigest(a.authenticator_data, a.client_data_json),
                            a.signature)
  THEN HostTrap
  ELSE Ok

StepsUntil(result) ==
  IF result = "SignerNotFound" THEN << "get_signer" >>
  ELSE IF result \in {"InvalidClientData", "ChallengeMismatch"}
  THEN << "get_signer", "verify_challenge" >>
  ELSE IF result = HostTrap
  THEN << "get_signer", "verify_challenge", "secp256r1_verify" >>
  ELSE << "get_signer", "verify_challenge", "secp256r1_verify", "extend_signer_ttl" >>

C8_EarliestFailingStepDecides ==
  \A p \in Payloads, a \in Assertions, x \in AuthContexts :
    LET r == __check_auth(Env, p, a, x)
    IN  /\ r.result = ExpectedOutcome(p, a)
        /\ r.steps = StepsUntil(r.result)
        /\ r.result # Ok => r.env = Env

C8_Witness ==
  /\ Initialized
  /\ last.op = "__check_auth"
  /\ last.result = "SignerNotFound"
  /\ last.steps = << "get_signer" >>
  /\ \E p \in Payloads, a \in Assertions :
       /\ a.id = last.credential_id
       /\ ChallengeOutcome[a.client_data_json, p] = "InvalidClientData"
       /\ __check_auth(Env, p, a, << >>).result = "SignerNotFound"

(***************************************************************************)
(* C9.  Every signer stored in either tier has public_key[0] = 0x04; init  *)
(* on an uninitialized wallet and authorized add_signer and                *)
(* add_session_signer calls with a key whose first byte is not 0x04 return *)
(* InvalidPublicKey (code 7) and store nothing (after init the wallet is   *)
(* still uninitialized).                                                   *)
(***************************************************************************)
C9_StoredKeysUncompressed ==
  /\ \A c \in Creds :
       /\ has(persistent, c) => persistent[c].value.public_key[1] = 4
       /\ has(temporary, c) => temporary[c].value.public_key[1] = 4
  /\ WalletError["InvalidPublicKey"] = 7
  /\ \A c \in Creds, k \in PublicKeys :
       k[1] # 4 =>
         /\ ~Initialized => init(Env, c, k) = Return("InvalidPublicKey", Env)
         /\ \A e \in AuthEntries :
              Authorizes(e) =>
                /\ add_signer(Env, e, c, k) = Return("InvalidPublicKey", Env)
                /\ add_session_signer(Env, e, c, k) = Return("InvalidPublicKey", Env)

C9_Witness ==
  /\ last.op = "add_signer"
  /\ last.authorized
  /\ last.result = "InvalidPublicKey"
  /\ ~Registered(last.credential_id)

(***************************************************************************)
(* C10.  As claimed: an authorized add_signer(c, k), for any key k, when   *)
(* persistent[c] exists returns SignerAlreadyExists (code 2) and leaves    *)
(* the entry unchanged.                                                    *)
(***************************************************************************)
C10_DuplicateAdminRejected ==
  \A c \in Creds, k \in PublicKeys, e \in AuthEntries :
    (Authorizes(e) /\ has(persistent, c))
      => add_signer(Env, e, c, k) = Return("SignerAlreadyExists", Env)

(***************************************************************************)
(* C10, amended.  An authorized add_signer(c, k) when persistent[c] exists *)
(* returns SignerAlreadyExists (code 2) if k starts with 0x04 and          *)
(* InvalidPublicKey otherwise (the key is validated before the duplicate   *)
(* check); either way nothing is written and c keeps its original key.     *)
(***************************************************************************)
C10_DuplicateAdminRejectedForValidKey ==
  /\ WalletError["SignerAlreadyExists"] = 2
  /\ \A c \in Creds, k \in PublicKeys, e \in AuthEntries :
       (Authorizes(e) /\ has(persistent, c))
         => add_signer(Env, e, c, k) =
              Return(IF k[1] = 4 THEN "SignerAlreadyExists" ELSE "InvalidPublicKey",
                     Env)

C10_Witness ==
  /\ last.op = "add_signer"
  /\ last.result = "SignerAlreadyExists"
  /\ has(persistent, last.credential_id)
  /\ Cardinality(AdminSigners) = 2

(***************************************************************************)
(* C11.  As claimed: an authorized add_session_signer(c, k), for any key   *)
(* k, when c has an entry in the persistent or in the temporary tier       *)
(* returns SignerAlreadyExists (code 2) and writes nothing.                *)
(***************************************************************************)
C11_DuplicateSessionRejected ==
  \A c \in Creds, k \in PublicKeys, e \in AuthEntries :
    (Authorizes(e) /\ Registered(c))
      => add_session_signer(Env, e, c, k) = Return("SignerAlreadyExists", Env)

(***************************************************************************)
(* C11, amended.  An authorized add_session_signer(c, k) when c has an     *)
(* entry in the persistent or in the temporary tier returns                *)
(* SignerAlreadyExists (code 2) if k starts with 0x04 and InvalidPublicKey *)
(* otherwise (the key is validated before the duplicate check); either way *)
(* nothing is written to either tier and no lifetime is extended.          *)
(***************************************************************************)
C11_DuplicateSessionRejectedForValidKey ==
  /\ WalletError["SignerAlreadyExists"] = 2
  /\ \A c \in Creds, k \in PublicKeys, e \in AuthEntries :
       (Authorizes(e) /\ Registered(c))
         => add_session_signer(Env, e, c, k) =
              Return(IF k[1] = 4 THEN "SignerAlreadyExists" ELSE "InvalidPublicKey",
                     Env)

\* The rejected duplicate is a session signer, the other credential an admin.
C11_Witness ==
  /\ last.op = "add_session_signer"
  /\ last.result = "SignerAlreadyExists"
  /\ has(temporary, last.credential_id)
  /\ ~has(persistent, last.credential_id)
  /\ \E c \in Creds : has(persistent, c) /\ ~has(temporary, c)

(***************************************************************************)
(* C12.  An authorized remove_signer(c) for a credential c present in      *)
(* neither tier returns SignerNotFound (code 1) without any state change;  *)
(* and right after an authorized remove_signer(c), a second authorized     *)
(* remove_signer(c) returns SignerNotFound.                                *)
(***************************************************************************)
C12_RemoveUnknownNotFound ==
  /\ WalletError["SignerNotFound"] = 1
  /\ \A c \in Creds, e \in AuthEntries :
       (Authorizes(e) /\ ~Registered(c))
         => remove_signer(Env, e, c) = Return("SignerNotFound", Env)
  /\ (last.op = "remove_signer" /\ last.authorized)
       => \A e \in AuthEntries :
            Authorizes(e)
              => remove_signer(Env, e, last.credential_id).result = "SignerNotFound"

(***************************************************************************)
(* C13.  For a registered signer, __check_auth returns InvalidClientData   *)
(* (code 8) and changes nothing whenever client_data_json does not contain *)
(* the needle "challenge":" or contains it with no later '"' byte (a blob  *)
(* shorter than the needle or ending right after it included); every byte *)
(* index it reads lies inside the blob.                                    *)
(***************************************************************************)
\* The needle occupies the bytes at 0-based offsets i .. i + 12 of the blob.
HasNeedleAt(json, i) ==
  /\ i >= 0
  /\ i + Len(needle) <= Len(json)
  /\ SubSeq(json, i + 1, i + Len(needle)) = needle

\* The blob holds the needle and a '"' byte somewhere after it.
WellDelimited(json) ==
  \E i \in 0..Len(json) :
    /\ HasNeedleAt(json, i)
    /\ \E q \in (i + Len(needle) + 1)..Len(json) : json[q] = 34

\* The probed blobs without a closed challenge value, and the assertions
\* that carry them.
MalformedProbes == {j \in ProbedClientDatas : ~WellDelimited(j)}
MalformedAssertions == AssertionsOver(MalformedProbes)

\* verify_challenge reads only bytes inside each of these blobs.
ReadsInBounds ==
  \A j \in MalformedProbes : get_indices(j) \subseteq 0..(Len(j) - 1)

C13_MalformedClientDataRejected ==
  /\ WalletError["InvalidClientData"] = 8
  /\ ReadsInBounds
  /\ \A a \in MalformedAssertions :
       Registered(a.id) =>
         \A p \in Payloads, x \in AuthContexts :
           __check_auth(Env, p, a, x) =
             Outcome("InvalidClientData", Env, << "get_signer", "verify_challenge" >>)

\* A registered signer was refused for its blob; the blobs probed cover a
\* blob shorter than the needle and one ending right after it.
C13_Witness ==
  /\ last.op = "__check_auth"
  /\ last.result = "InvalidClientData"
  /\ Registered(last.credential_id)
  /\ MalformedClientDatas \subseteq MalformedProbes
  /\ \E j \in MalformedProbes : Len(j) < Len(needle)
  /\ \E j \in MalformedProbes : HasNeedleAt(j, Len(j) - Len(needle))

(***************************************************************************)
(* C14.  For a registered signer and a client_data_json with a closed      *)
(* challenge value, __check_auth passes the challenge step iff the bytes   *)
(* between the needle and the next '"' equal                               *)
(* base64url_no_pad(signature_payload); otherwise it returns               *)
(* ChallengeMismatch (code 4) and changes nothing.                         *)
(***************************************************************************)
\* The bytes between the first needle of the blob and the next '"' byte.
ChallengeField(json) ==
  LET i == CHOOSE i \in 0..Len(json) :
             HasNeedleAt(json, i) /\ \A k \in 0..(i - 1) : ~HasNeedleAt(json, k)
      from == i + Len(needle) + 1
      q == CHOOSE q \in from..Len(json) :
             json[q] = 34 /\ \A r \in from..(q - 1) : json[r] # 34
  IN  SubSeq(json, from, q - 1)

\* The probed blobs with a closed challenge value, the assertions that
\* carry them, and whether the value of a blob is the encoding of a payload.
DelimitedProbes == {j \in ProbedClientDatas : WellDelimited(j)}
DelimitedAssertions == AssertionsOver(DelimitedProbes)
CarriesEncoded ==
  [j \in DelimitedProbes, p \in Payloads |-> ChallengeField(j) = Encoded[p]]

C14_ChallengeStepIffEncodedPayload ==
  /\ WalletError["ChallengeMismatch"] = 4
  /\ \A a \in DelimitedAssertions :
       Registered(a.id) =>
         \A p \in Payloads, x \in AuthContexts :
           LET r == __check_auth(Env, p, a, x)
           IN  /\ CarriesEncoded[a.client_data_json, p]
                     <=> (/\ r.result \notin {"InvalidClientData", "ChallengeMismatch"}
                          /\ Len(r.steps) > 2
                          /\ r.steps[3] = "secp256r1_verify")
               /\ ~CarriesEncoded[a.client_data_json, p]
                     => r = Outcome("ChallengeMismatch", Env,
                                    << "get_signer", "verify_challenge" >>)

\* A registered signer was refused for a payload other than the embedded
\* one; the blobs probed cover both payloads and near misses of a challenge.
C14_Witness ==
  /\ last.op = "__check_auth"
  /\ last.result = "ChallengeMismatch"
  /\ Registered(last.credential_id)
  /\ DelimitedClientDatas \subseteq DelimitedProbes
  /\ \A p \in Payloads : \E j \in DelimitedProbes : CarriesEncoded[j, p]
  /\ \E j \in DelimitedClientDatas :
       /\ ChallengeField(j) # Encoded[PayloadZero]
       /\ ChallengeField(j) = SubSeq(Encoded[PayloadZero], 1, Len(ChallengeField(j)))

(***************************************************************************)
(* C15.  When the signer resolves and the challenge matches but the host   *)
(* secp256r1 primitive rejects the signature, __check_auth ends in a host  *)
(* trap: the result is neither ok nor a WalletError code, no signer or     *)
(* instance lifetime is extended and no storage is changed; an entry point *)
(* that required this authorization fails without any change.              *)
(***************************************************************************)
\* The assertion passes the first two steps and its signature is rejected
\* under the key its credential resolves to.
SignatureRejected(p, a) ==
  /\ Registered(a.id)
  /\ ChallengeOutcome[a.client_data_json, p] = Ok
  /\ ~secp256r1_verify(ResolvedKey(a),
                       SignedDigest(a.authenticator_data, a.client_data_json),
                       a.signature)

C15_RejectedSignatureTraps ==
  /\ \A p \in Payloads, a \in Assertions, x \in AuthContexts :
       SignatureRejected(p, a) =>
         LET r == __check_auth(Env, p, a, x)
         IN  /\ r.result = HostTrap
             /\ r.result # Ok
             /\ r.result \notin DOMAIN WalletError
             /\ r.env = Env
  /\ \A e \in AuthEntries :
       SignatureRejected(e.signature_payload, e.signature) =>
         \A c \in Creds, k \in PublicKeys :
           /\ add_signer(Env, e, c, k) = Return(AuthFailed, Env)
           /\ add_session_signer(Env, e, c, k) = Return(AuthFailed, Env)
           /\ remove_signer(Env, e, c) = Return(AuthFailed, Env)

\* The trap hit a session signer whose lifetime was below its threshold, so
\* that a successful authorization would have extended it.
C15_Witness ==
  /\ last.op = "__check_auth"
  /\ last.result = HostTrap
  /\ ~has(persistent, last.credential_id)
  /\ has(temporary, last.credential_id)
  /\ temporary[last.credential_id].live_until - ledger < SESSION_TTL_THRESHOLD

(***************************************************************************)
(* C16.  In every state after init the admin signer count stored in the    *)
(* instance tier equals the number of Admin signers in persistent storage. *)
(***************************************************************************)
C16_AdminCountMatchesAdmins ==
  Initialized =>
    /\ AdminSignerCount \in DOMAIN instance
    /\ instance[AdminSignerCount] = Cardinality(AdminSigners)

(***************************************************************************)
(* C17.  The outcome of __check_auth does not depend on auth_contexts: two *)
(* calls that differ only in auth_contexts give the same result and leave  *)
(* the same state; hence every entry that authorizes, by a Session signer  *)
(* as by an Admin signer, authorizes add_signer, add_session_signer and    *)
(* remove_signer on the wallet, whatever contexts it is checked with.      *)
(***************************************************************************)
\* The entry with its contexts replaced.
WithContexts(e, x) == [e EXCEPT !.auth_contexts = x]

C17_ContextsIgnored ==
  /\ \A p \in Payloads, a \in Assertions :
       LET r == __check_auth(Env, p, a, << >>)
       IN  \A x \in AuthContexts : __check_auth(Env, p, a, x) = r
  /\ \A e \in AuthEntries :
       Authorizes(e) =>
         \A x \in AuthContexts, c \in Creds, k \in PublicKeys :
           /\ get_signer(Env, e.signature.id).kind \in SignerKind
           /\ add_signer(Env, WithContexts(e, x), c, k).result # AuthFailed
           /\ add_session_signer(Env, WithContexts(e, x), c, k).result # AuthFailed
           /\ remove_signer(Env, WithContexts(e, x), c).result # AuthFailed

\* A session signer authorized a signer-management call: add_session_signer
\* succeeded in a wallet that holds no persistent signer.
C17_Witness ==
  /\ last.op = "add_session_signer"
  /\ last.result = Ok
  /\ \A c \in Creds : ~has(persistent, c) /\ has(temporary, c)
  /\ Cardinality(AuthContexts) > 1

(***************************************************************************)
(* C18.  While a credential stays registered, the Signer (public_key and   *)
(* kind) that __check_auth resolves it to never changes: no init,          *)
(* add_signer, add_session_signer or __check_auth call alters what a       *)
(* registered credential resolves to, and __check_auth changes lifetimes   *)
(* only.                                                                   *)
(***************************************************************************)
C18_ResolvedSignerFixed ==
  [][(last'.op \in {"init", "add_signer", "add_session_signer", "__check_auth"})
     => /\ \A c \in Creds :
             Registered(c) => get_signer(Env', c) = get_signer(Env, c)
        /\ last'.op = "__check_auth" => SignerSet' = SignerSet]_vars

(***************************************************************************)
(* C20.  Every operation that writes a persistent or temporary entry       *)
(* (Wallet.init, add_signer, add_session_signer, Factory.deploy) leaves    *)
(* the entry it wrote, when it succeeds, with a remaining lifetime of at   *)
(* least the floor of its tier: 60480 ledgers for admin signers and the    *)
(* factory index, 8640 for session signers.                                *)
(***************************************************************************)
\* Ledgers an entry of a tier has left at ledger now.
Remaining(tier, key, now) == tier[key].live_until - now

C20_WritesExtendTtl ==
  /\ ADMIN_TTL_THRESHOLD = 60480
  /\ DEPLOYED_TTL_THRESHOLD = 60480
  /\ SESSION_TTL_THRESHOLD = 8640
  /\ \A c \in Creds, k \in PublicKeys :
       LET r == init(WalletEnv(NewWallet(ledger), ledger), c, k)
       IN  r.result = Ok
             => /\ has(r.env.persistent, c)
                /\ Remaining(r.env.persistent, c, ledger) >= ADMIN_TTL_THRESHOLD
  /\ \A w \in DeployedWallets, c \in Creds, k \in PublicKeys, e \in AuthEntries :
       LET env == WalletEnv(wallets[w], ledger)
           admin == add_signer(env, e, c, k)
           session == add_session_signer(env, e, c, k)
       IN  /\ admin.result = Ok
                 => /\ has(admin.env.persistent, c)
                    /\ Remaining(admin.env.persistent, c, ledger) >= ADMIN_TTL_THRESHOLD
           /\ session.result = Ok
                 => /\ has(session.env.temporary, c)
                    /\ Remaining(session.env.temporary, c, ledger) >= SESSION_TTL_THRESHOLD
  /\ \A s \in TxSigners, d \in Deployers, c \in Creds, k \in PublicKeys :
       LET r == deploy(FEnv, s, d, c, k)
       IN  r.result = Ok
             => /\ has(r.env.persistent, c)
                /\ Remaining(r.env.persistent, c, ledger) >= DEPLOYED_TTL_THRESHOLD
                /\ Remaining(r.env.wallets[r.value].persistent, c, ledger)
                     >= ADMIN_TTL_THRESHOLD
  /\ (last.op = "deploy" /\ last.result = Ok)
       => Remaining(factory.persistent, last.credential_id, ledger)
            >= DEPLOYED_TTL_THRESHOLD

\* After ledgers passed: a factory entry written then, a wallet that got a
\* second admin signer, and a session signer just added to a wallet.
C20_Witness ==
  /\ ledger > 0
  /\ last.op = "add_session_signer"
  /\ last.result = Ok
  /\ \E c \in Creds :
       /\ has(factory.persistent, c)
       /\ factory.persistent[c].live_until = ledger + DEPLOYED_TTL_EXTEND
  /\ \E w \in DeployedWallets : \A c \in Creds : has(wallets[w].persistent, c)
  /\ \E w \in DeployedWallets :
       /\ has(wallets[w].temporary, last.credential_id)
       /\ wallets[w].temporary[last.credential_id].live_until
            = ledger + SESSION_TTL_EXTEND

(***************************************************************************)
(* C19.  A successful __check_auth changes no stored value and extends     *)
(* only the lifetime of the entry of the signer that authenticated, in the *)
(* tier of its kind (persistent, floor 60480 and extension 120960, for     *)
(* Admin; temporary, floor 8640 and extension 17280, for Session), and of  *)
(* the instance tier when the signer is Admin: a lifetime below the floor  *)
(* becomes the extension, another one is kept, so that afterwards the      *)
(* entry has at least its floor left; all other lifetimes are unchanged.   *)
(***************************************************************************)
\* A lifetime below the floor becomes the extension; another one is kept.
Refreshed(before, after, floor, extension) ==
  /\ after >= floor
  /\ before < floor => after = extension
  /\ before >= floor => after = before

C19_AuthExtendsOnlyItsSigner ==
  /\ ADMIN_TTL_THRESHOLD = 60480 /\ ADMIN_TTL_EXTEND = 120960
  /\ SESSION_TTL_THRESHOLD = 8640 /\ SESSION_TTL_EXTEND = 17280
  /\ \A p \in Payloads, a \in Assertions, x \in AuthContexts :
       LET r == __check_auth(Env, p, a, x)
           kind == get_signer(Env, a.id).kind
       IN  r.result = Ok =>
             /\ r.env.instance = instance
             /\ r.env.ledger = ledger
             /\ \A c \in Creds :
                  /\ get(r.env.persistent, c) = get(persistent, c)
                  /\ get(r.env.temporary, c) = get(temporary, c)
                  /\ c # a.id => /\ r.env.persistent[c] = persistent[c]
                                 /\ r.env.temporary[c] = temporary[c]
             /\ kind = Admin =>
                  /\ Refreshed(Remaining(persistent, a.id, ledger),
                               Remaining(r.env.persistent, a.id, ledger),
                               ADMIN_TTL_THRESHOLD, ADMIN_TTL_EXTEND)
                  /\ Refreshed(instance_live - ledger, r.env.instance_live - ledger,
                               ADMIN_TTL_THRESHOLD, ADMIN_TTL_EXTEND)
                  /\ r.env.temporary = temporary
             /\ kind = Session =>
                  /\ Refreshed(Remaining(temporary, a.id, ledger),
                               Remaining(r.env.temporary, a.id, ledger),
                               SESSION_TTL_THRESHOLD, SESSION_TTL_EXTEND)
                  /\ r.env.persistent = persistent
                  /\ r.env.instance_live = instance_live

\* An admin signer authenticated after its entry had fallen below the
\* floor: its entry and the instance tier carry the new lifetime, while
\* the other admin entry still has the lifetime it got at ledger 0.
C19_Witness ==
  /\ last.op = "__check_auth"
  /\ last.result = Ok
  /\ ledger > ADMIN_TTL_THRESHOLD
  /\ has(persistent, last.credential_id)
  /\ persistent[last.credential_id].live_until = ledger + ADMIN_TTL_EXTEND
  /\ instance_live = ledger + ADMIN_TTL_EXTEND
  /\ \E c \in Creds \ {last.credential_id} :
       has(persistent, c) /\ persistent[c].live_until = ADMIN_TTL_EXTEND

(***************************************************************************)
(* C21.  A successful add_session_signer(c, k) writes exactly one entry,   *)
(* temporary[c] = Signer{k, Session}, where there was none, and leaves     *)
(* every value of the persistent tier, the instance entries, the number of *)
(* Admin signers and every other session entry unchanged; the only         *)
(* lifetimes that change besides that of the new entry are those the       *)
(* authorization refreshes for the signer that authenticated.              *)
(***************************************************************************)
C21_AddSessionWritesOneEntry ==
  \A c \in Creds, k \in PublicKeys, e \in AuthEntries :
    LET r == add_session_signer(Env, e, c, k)
    IN  r.result = Ok =>
          /\ ~has(temporary, c)
          /\ get(r.env.temporary, c) = Signer(k, Session)
          /\ r.env.instance = instance
          /\ r.env.ledger = ledger
          /\ {a \in Creds : has(r.env.persistent, a)} = AdminSigners
          /\ \A o \in Creds :
               /\ get(r.env.persistent, o) = get(persistent, o)
               /\ o # c => get(r.env.temporary, o) = get(temporary, o)
               /\ o \notin {c, e.signature.id}
                    => /\ r.env.persistent[o] = persistent[o]
                       /\ r.env.temporary[o] = temporary[o]

\* A session signer was added next to another session signer, the one that
\* authorized the call and whose lifetime the authorization refreshed, in a
\* wallet whose admin signer has been removed.
C21_Witness ==
  /\ last.op = "add_session_signer"
  /\ last.result = Ok
  /\ has(temporary, last.credential_id)
  /\ temporary[last.credential_id].value.kind = Session
  /\ ledger > 0
  /\ \E o \in Creds \ {last.credential_id} :
       /\ has(temporary, o)
       /\ ~has(persistent, o)
       /\ temporary[o].live_until = ledger + SESSION_TTL_EXTEND

(***************************************************************************)
(* C22.  Factory.init succeeds only on a factory that holds no wallet      *)
(* binary hash and stores the hash it is given; once a hash is stored,     *)
(* every later init call, with any hash, panics and changes nothing, and   *)
(* no init, deploy or get_wallet call (nor any other step) changes or      *)
(* removes the stored hash.                                                *)
(***************************************************************************)
\* The factory holds a wallet binary hash.
FactoryInitialized == WalletWasmHash \in DOMAIN factory.instance

C22_FactoryInitOnlyOnce ==
  [][/\ (last'.op = "Factory.init" /\ last'.result = Ok)
          => (~FactoryInitialized /\ FactoryInitialized')
     /\ FactoryInitialized =>
          /\ factory'.instance = factory.instance
          /\ \A h \in WasmHashes : Factory_init(FEnv, h) = Reply(HostTrap, FEnv, None)
          /\ last'.op = "Factory.init" =>
               /\ last'.result = HostTrap
               /\ UNCHANGED <<factory, wallets, ledger>>]_vars

\* A second init was refused on a factory that had deployed a wallet in
\* between and still holds the first hash.
C22_Witness ==
  /\ last.op = "Factory.init"
  /\ last.result = HostTrap
  /\ FactoryInitialized
  /\ factory.instance[WalletWasmHash] = "wasm1"
  /\ \E c \in Creds : has(factory.persistent, c)

(***************************************************************************)
(* C23.  Within one factory the address of the wallet a successful         *)
(* deploy(deployer, c, pk) creates depends on c alone: it is the address   *)
(* that another run of the factory (newly initialized, another hash,       *)
(* another deployer, another well-formed key, another ledger) gives the    *)
(* wallet of c, and the address the Deployed entry of c records.           *)
(***************************************************************************)
\* The run compared with: the factory newly initialized with "wasm2" at
\* ledger 0, deploy called by bob with dummy_public_key(50).
ReferenceDeploy ==
  [c \in Creds |->
     deploy(FreshFactoryEnv(factory_address, "wasm2", 0), {"bob"}, "bob", c,
            dummy_public_key(50))]

C23_AddressDependsOnCredentialOnly ==
  /\ \A c \in Creds : ReferenceDeploy[c].result = Ok
  /\ \A s \in TxSigners, d \in Deployers, c \in Creds, k \in PublicKeys :
       LET r == deploy(FEnv, s, d, c, k)
       IN  r.result = Ok => r.value = ReferenceDeploy[c].value
  /\ \A c \in Creds :
       has(factory.persistent, c)
         => get(factory.persistent, c) = ReferenceDeploy[c].value

\* After ledgers passed, alice deployed the wallet of a credential on a
\* factory holding the other hash; a deploy by bob with the other key for
\* the other credential would succeed in this state.
C23_Witness ==
  /\ last.op = "deploy"
  /\ last.result = Ok
  /\ ledger > 0
  /\ factory.instance[WalletWasmHash] = "wasm1"
  /\ has(factory.persistent, last.credential_id)
  /\ factory.persistent[last.credential_id].live_until = ledger + DEPLOYED_TTL_EXTEND
  /\ \E c \in Creds :
       deploy(FEnv, {"bob"}, "bob", c, dummy_public_key(50)).result = Ok

(***************************************************************************)
(* C24.  A Factory.deploy with a credential c that has a Deployed entry    *)
(* fails as a whole, for any deployer and any public key: it returns no    *)
(* address and leaves the factory, Deployed[c] and every deployed wallet,  *)
(* the signer registry of the wallet of c included, exactly as they were;  *)
(* when the deployer authorized the call the failure is a trap, and init   *)
(* on the wallet of c returns AlreadyInitialized.                          *)
(***************************************************************************)
C24_RedeployFailsAtomically ==
  \A c \in Creds :
    has(factory.persistent, c) =>
      /\ wallets[get(factory.persistent, c)] # None
      /\ \A s \in TxSigners, d \in Deployers, k \in PublicKeys :
           LET r == deploy(FEnv, s, d, c, k)
           IN  /\ r.result # Ok
               /\ d \in s => r.result = HostTrap
               /\ r.value = None
               /\ r.env = FEnv
               /\ r.env.wallets[get(factory.persistent, c)] = wallets[get(factory.persistent, c)]
               /\ get(r.env.persistent, c) = get(factory.persistent, c)
               /\ init(WalletEnv(wallets[get(factory.persistent, c)], ledger), c, k).result
                    = "AlreadyInitialized"

\* A second deploy for a credential trapped after its wallet had been given
\* a second admin signer.
C24_Witness ==
  /\ last.op = "deploy"
  /\ last.result = HostTrap
  /\ has(factory.persistent, last.credential_id)
  /\ \A c \in Creds :
       has(wallets[get(factory.persistent, last.credential_id)].persistent, c)

(***************************************************************************)
(* C25.  As claimed: every Factory.deploy called on a factory that holds   *)
(* no wallet binary hash panics and changes nothing; a factory that holds  *)
(* no hash has no Deployed entry and no deployed wallet.                   *)
(***************************************************************************)
\* Nothing was deployed: no Deployed entry and no wallet contract.
NothingDeployed ==
  /\ \A c \in Creds : ~has(factory.persistent, c)
  /\ DeployedWallets = {}

C25_DeployBeforeInitPanics ==
  ~FactoryInitialized =>
    /\ NothingDeployed
    /\ \A s \in TxSigners, d \in Deployers, c \in Creds, k \in PublicKeys :
         deploy(FEnv, s, d, c, k) = Reply(HostTrap, FEnv, None)

(***************************************************************************)
(* C25, amended.  A Factory.deploy called on a factory that holds no       *)
(* wallet binary hash fails and changes nothing: it panics when the        *)
(* deployer authorized the call, and fails at deployer.require_auth(),     *)
(* before the hash is looked up, when it did not.  A factory that holds no *)
(* hash has no Deployed entry and no deployed wallet, so every Deployed    *)
(* entry was created after Factory.init.                                   *)
(***************************************************************************)
C25_DeployBeforeInitFails ==
  ~FactoryInitialized =>
    /\ NothingDeployed
    /\ \A s \in TxSigners, d \in Deployers, c \in Creds, k \in PublicKeys :
         deploy(FEnv, s, d, c, k) =
           Reply(IF d \in s THEN HostTrap ELSE AuthFailed, FEnv, None)

\* An early deploy trapped, after ledgers passed, on a factory never
\* initialized.
C25_Witness ==
  /\ last.op = "deploy"
  /\ last.result = HostTrap
  /\ ~FactoryInitialized
  /\ ledger > 0

(***************************************************************************)
(* C26.  get_wallet(c) returns the address recorded in Deployed[c] and     *)
(* None when there is no such entry, in every state, whether or not the    *)
(* step is a call of it.  An entry for c appears only by a                 *)
(* successful deploy for c, with the address that deploy returned, and     *)
(* then never changes: so get_wallet(c) returns Some(a) iff a deploy for c *)
(* succeeded earlier, a being the address it returned.  get_wallet changes *)
(* no address, no wallet and no other entry; on a hit it refreshes the     *)
(* lifetime of the entry it read (floor 60480, extension 120960) and on a  *)
(* miss it changes nothing.                                                *)
(***************************************************************************)
\* What get_wallet(c) returns in the current state.
Lookup(c) == get_wallet(FEnv, c).value

C26_GetWalletReturnsDeployed ==
  [][/\ \A c \in Creds :
          LET before == get(factory.persistent, c)
              after == get(factory'.persistent, c)
          IN  /\ Lookup(c) = before
              /\ before # None => after = before
              /\ (before = None /\ after # None)
                   => /\ last'.op = "deploy"
                      /\ last'.result = Ok
                      /\ last'.credential_id = c
              /\ (last'.op = "deploy" /\ last'.result = Ok /\ last'.credential_id = c)
                   => /\ before = None
                      /\ last'.value # None
                      /\ after = last'.value
     /\ last'.op = "get_wallet" =>
          LET c == last'.credential_id
              entry == get(factory.persistent, c)
          IN  /\ last'.result = Ok
              /\ last'.value = entry
              /\ factory'.instance = factory.instance
              /\ wallets' = wallets
              /\ ledger' = ledger
              /\ \A o \in Creds \ {c} : factory'.persistent[o] = factory.persistent[o]
              /\ entry = None => factory' = factory
              /\ entry # None =>
                   Refreshed(Remaining(factory.persistent, c, ledger),
                             Remaining(factory'.persistent, c, ledger),
                             DEPLOYED_TTL_THRESHOLD, DEPLOYED_TTL_EXTEND)]_vars

\* A lookup hit an entry that a deploy at ledger 0 had written and whose
\* lifetime had fallen below the floor, while the other credential has no
\* wallet.
C26_Witness ==
  /\ last.op = "get_wallet"
  /\ last.value # None
  /\ ledger > DEPLOYED_TTL_THRESHOLD
  /\ wallets[last.value].persistent[last.credential_id].live_until = ADMIN_TTL_EXTEND
  /\ factory.persistent[last.credential_id].live_until = ledger + DEPLOYED_TTL_EXTEND
  /\ \E c \in Creds : Lookup(c) = None

(***************************************************************************)
(* C27.  As claimed: for every credential c, a successful deploy for c on  *)
(* the factory and a successful deploy for c on an independent factory     *)
(* deployment at another address, initialized with the identical hash,     *)
(* yield the same wallet address.                                          *)
(***************************************************************************)
\* deploy for c on a factory deployment at address f, newly initialized
\* with hash h at ledger 0, by either deployer with either well-formed key.
DeploysAt(f, h, c) ==
  {deploy(FreshFactoryEnv(f, h, 0), {d}, d, c, k) : d \in Deployers, k \in ValidKeys}

\* The same, tabulated.
IndependentDeploy ==
  [f \in {factory_address, other_factory_address}, h \in WasmHashes, c \in Creds |->
     DeploysAt(f, h, c)]

C27_SameAddressOnAnyFactory ==
  FactoryInitialized =>
    \A c \in Creds, s \in TxSigners, d \in Deployers, k \in PublicKeys :
      LET r == deploy(FEnv, s, d, c, k)
      IN  r.result = Ok =>
            \A o \in IndependentDeploy[other_factory_address,
                                        factory.instance[WalletWasmHash], c] :
              o.result = Ok /\ o.value = r.value

(***************************************************************************)
(* C27, amended.  For every credential c, a successful deploy for c on the *)
(* factory and one on an independent factory deployment initialized with   *)
(* the identical hash yield the same wallet address when the two factory   *)
(* deployments have the same address, and different wallet addresses when  *)
(* they have different addresses; so do the addresses the Deployed entries *)
(* record.                                                                 *)
(***************************************************************************)
C27_SameAddressOnSameFactoryAddress ==
  FactoryInitialized =>
    \A c \in Creds, f \in {factory_address, other_factory_address} :
      \A o \in IndependentDeploy[f, factory.instance[WalletWasmHash], c] :
        /\ o.result = Ok
        /\ has(factory.persistent, c)
             => (get(factory.persistent, c) = o.value <=> f = factory_address)
        /\ \A s \in TxSigners, d \in Deployers, k \in PublicKeys :
             LET r == deploy(FEnv, s, d, c, k)
             IN  r.result = Ok => (r.value = o.value <=> f = factory_address)

\* A factory holding the second hash deployed the wallet of one credential
\* and can still deploy that of the other.
C27_Witness ==
  /\ last.op = "deploy"
  /\ last.result = Ok
  /\ factory.instance[WalletWasmHash] = "wasm2"
  /\ \E c \in Creds :
       /\ ~has(factory.persistent, c)
       /\ deploy(FEnv, {"alice"}, "alice", c, dummy_public_key(1)).result = Ok

(***************************************************************************)
(* C28.  The wallet address depends on the factory's own address: no       *)
(* wallet address that the factory records or returns is one that a        *)
(* factory at another address returns, for the same credential or for      *)
(* another one and whatever hash that factory holds; and on one factory    *)
(* two credentials whose SHA-256 salts differ get different addresses.     *)
(***************************************************************************)
\* The wallet addresses a factory at another address gives out.
OtherFactoryAddresses ==
  {o.value : o \in UNION {IndependentDeploy[other_factory_address, h, c] :
                            h \in WasmHashes, c \in Creds}}

\* The wallet addresses deploy gives out in the current state, per credential.
Deployable(c) ==
  {r.value : r \in {x \in {deploy(FEnv, s, d, c, k) :
                               s \in TxSigners, d \in Deployers, k \in PublicKeys} :
                      x.result = Ok}}

C28_NoAddressCollision ==
  /\ Cardinality(OtherFactoryAddresses) = Cardinality(Creds)
  /\ \A c \in Creds :
       /\ get(factory.persistent, c) \notin OtherFactoryAddresses
       /\ Deployable(c) \cap OtherFactoryAddresses = {}
       /\ \A o \in Creds \ {c} :
            sha256(o) # sha256(c) =>
              /\ Deployable(c) \cap Deployable(o) = {}
              /\ has(factory.persistent, c)
                   => /\ get(factory.persistent, c) \notin Deployable(o)
                      /\ get(factory.persistent, c) # get(factory.persistent, o)

\* The factory deployed the wallets of both credentials.
C28_Witness ==
  /\ last.op = "deploy"
  /\ last.result = Ok
  /\ \A c \in Creds : has(factory.persistent, c)
  /\ Cardinality({get(factory.persistent, c) : c \in Creds}) = 2

(***************************************************************************)
(* C29.  base64url_encode gives, for every input, the RFC 4648 section 5   *)
(* encoding without padding: the output uses only A-Z a-z 0-9 - _, has     *)
(* ceil(4n/3) bytes for an n-byte input (43 for 32 bytes), decodes back to *)
(* the input; 32 zero bytes give 43 'A', 32 bytes 0xFF give 42 '_' then    *)
(* '8', and SHA-256("") gives the vector of the tests.                     *)
(***************************************************************************)
\* RFC 4648 table 2 (the URL and filename safe alphabet), values 0 .. 63.
Rfc4648Alphabet ==
  << 65, 66, 67, 68, 69, 70, 71, 72, 73, 74, 75, 76, 77, 78, 79, 80, 81, 82, 83,
     84, 85, 86, 87, 88, 89, 90, 97, 98, 99, 100, 101, 102, 103, 104, 105, 106,
     107, 108, 109, 110, 111, 112, 113, 114, 115, 116, 117, 118, 119, 120, 121,
     122, 48, 49, 50, 51, 52, 53, 54, 55, 56, 57, 45, 95 >>

\* RFC 4648: the input as a bit string, most significant bit first, filled
\* with zero bits to a multiple of 6, each 6-bit group written as a
\* character of the alphabet; no '=' is appended.
Rfc4648Encode(bytes) ==
  LET n == Len(bytes)
      bit(i) == IF i <= 8 * n
                THEN (bytes[(i - 1) \div 8 + 1] \div (2 ^ (7 - ((i - 1) % 8)))) % 2
                ELSE 0
      group(g) == 32 * bit(6 * g - 5) + 16 * bit(6 * g - 4) + 8 * bit(6 * g - 3)
                    + 4 * bit(6 * g - 2) + 2 * bit(6 * g - 1) + bit(6 * g)
  IN  [g \in 1..((8 * n + 5) \div 6) |-> Rfc4648Alphabet[group(g) + 1]]

\* RFC 4648 decoding of unpadded text: the 6-bit values of the characters
\* as a bit string, cut into bytes; the bits left over are dropped.
Rfc4648Decode(text) ==
  LET value(ch) == (CHOOSE v \in 1..64 : Rfc4648Alphabet[v] = ch) - 1
      bit(i) == (value(text[(i - 1) \div 6 + 1]) \div (2 ^ (5 - ((i - 1) % 6)))) % 2
      byte(k) == 128 * bit(8 * k - 7) + 64 * bit(8 * k - 6) + 32 * bit(8 * k - 5)
                   + 16 * bit(8 * k - 4) + 8 * bit(8 * k - 3) + 4 * bit(8 * k - 2)
                   + 2 * bit(8 * k - 1) + bit(8 * k)
  IN  [k \in 1..((6 * Len(text)) \div 8) |-> byte(k)]

\* A-Z a-z 0-9 - _
UrlSafeCharacters == (65..90) \cup (97..122) \cup (48..57) \cup {45, 95}

C29_Base64UrlNoPad ==
  last.op = "base64url_encode" =>
    LET n == Len(last.input)
    IN  /\ last.output = Rfc4648Encode(last.input)
        /\ \A i \in 1..Len(last.output) : last.output[i] \in UrlSafeCharacters
        /\ 3 * Len(last.output) >= 4 * n
        /\ 3 * (Len(last.output) - 1) < 4 * n
        /\ n = 32 => Len(last.output) = 43
        /\ Rfc4648Decode(last.output) = last.input
        /\ last.input = PayloadZero => last.output = [i \in 1..43 |-> 65]
        /\ last.input = PayloadFF
             => last.output = [i \in 1..43 |-> IF i = 43 THEN 56 ELSE 95]
        /\ last.input = KnownInput => last.output = KnownOutput

\* The 32 bytes 0xFF were encoded; the inputs cover every remainder of the
\* length by 3, lengths up to 65 and every character of the alphabet.
C29_Witness ==
  /\ last.op = "base64url_encode"
  /\ last.input = PayloadFF
  /\ \A m \in 0..2 : \E x \in EncodeInputs : Len(x) % 3 = m /\ Len(x) > 3
  /\ \E x \in EncodeInputs : Len(x) > 64
  /\ {base64url_encode(AlphabetInput)[i] : i \in 1..64} = UrlSafeCharacters

(***************************************************************************)
(* C30.  get_signer returns the persistent entry of a credential when      *)
(* there is one and the temporary entry only when there is none; for a     *)
(* credential present in both tiers __check_auth accepts only a signature  *)
(* that verifies under the key of the persistent (Admin) entry, traps on   *)
(* one made with the session entry's key, refreshes on success the         *)
(* lifetimes of the persistent entry and of the instance tier by the admin *)
(* rule, and never touches the session entry.                              *)
(***************************************************************************)
\* The credentials with an entry in both tiers.
InBothTiers == {c \in Creds : has(persistent, c) /\ has(temporary, c)}

C30_PersistentResolvedFirst ==
  /\ \A c \in Creds :
       get_signer(Env, c) =
         IF has(persistent, c) THEN persistent[c].value
         ELSE IF has(temporary, c) THEN temporary[c].value
         ELSE None
  /\ \A p \in Payloads, a \in Assertions, x \in AuthContexts :
       a.id \in InBothTiers =>
         LET r == __check_auth(Env, p, a, x)
             digest == SignedDigest(a.authenticator_data, a.client_data_json)
             admin_key == persistent[a.id].value.public_key
             session_key == temporary[a.id].value.public_key
         IN  /\ persistent[a.id].value.kind = Admin
             /\ r.env.temporary = temporary
             /\ r.result = Ok => secp256r1_verify(admin_key, digest, a.signature)
             /\ r.result = Ok =>
                  /\ r.env.persistent =
                       extend_ttl(persistent, a.id, ledger,
                                  ADMIN_TTL_THRESHOLD, ADMIN_TTL_EXTEND)
                  /\ r.env.instance_live =
                       extend_live(instance_live, ledger,
                                   ADMIN_TTL_THRESHOLD, ADMIN_TTL_EXTEND)
             /\ (/\ ChallengeOutcome[a.client_data_json, p] = Ok
                 /\ secp256r1_verify(session_key, digest, a.signature)
                 /\ session_key # admin_key) => r.result = HostTrap

\* A credential held in both tiers under two different keys authenticated.
C30_Witness ==
  /\ last.op = "__check_auth"
  /\ last.result = Ok
  /\ last.credential_id \in InBothTiers
  /\ persistent[last.credential_id].value.public_key
       # temporary[last.credential_id].value.public_key

(***************************************************************************)
(* C31.  When ledgers pass the live-until of a session signer's temporary  *)
(* entry, the entry is gone: from then on every __check_auth naming the    *)
(* credential returns SignerNotFound and the credential can be registered  *)
(* again by an authorized add_session_signer or add_signer; an entry of    *)
(* the persistent tier is never removed by ledgers passing, only by a      *)
(* successful remove_signer naming its credential.                         *)
(***************************************************************************)
C31_SessionExpiresAdminStays ==
  [][/\ \A c \in Creds :
          (has(temporary, c) /\ temporary[c].live_until < ledger') =>
            /\ ~has(temporary', c)
            /\ \A p \in Payloads, a \in Assertions :
                 a.id = c => __check_auth(Env', p, a, << >>).result = "SignerNotFound"
            /\ \A e \in AuthEntries, k \in ValidKeys :
                 require_auth(Env', e).result = Ok =>
                   /\ add_session_signer(Env', e, c, k).result = Ok
                   /\ add_signer(Env', e, c, k).result = Ok
     /\ \A c \in Creds :
          (has(persistent, c) /\ ~has(persistent', c)) =>
            /\ last'.op = "remove_signer"
            /\ last'.result = Ok
            /\ last'.credential_id = c
     /\ last'.op = "advance_ledger" =>
          (persistent' = persistent /\ instance' = instance)]_vars

(***************************************************************************)
(* C32.  Before a successful init the wallet holds no signer in either     *)
(* tier: every __check_auth returns SignerNotFound and every add_signer,   *)
(* add_session_signer and remove_signer fails its authorization and leaves *)
(* the wallet as it was.  A successful init then leaves exactly one        *)
(* signer, the Admin signer of its arguments in persistent storage.        *)
(***************************************************************************)
C32_FirstSignerIsInitAdmin ==
  ~Initialized =>
    /\ \A c \in Creds : ~Registered(c)
    /\ \A p \in Payloads, a \in Assertions, x \in AuthContexts :
         /\ __check_auth(Env, p, a, x).result = "SignerNotFound"
         /\ __check_auth(Env, p, a, x).env = Env
    /\ \A e \in AuthEntries, c \in Creds :
         /\ remove_signer(Env, e, c) = Return(AuthFailed, Env)
         /\ \A k \in PublicKeys :
              /\ add_signer(Env, e, c, k) = Return(AuthFailed, Env)
              /\ add_session_signer(Env, e, c, k) = Return(AuthFailed, Env)
    /\ \A c \in Creds, k \in PublicKeys :
         LET r == init(Env, c, k)
         IN  r.result = Ok =>
               /\ has(r.env.persistent, c)
               /\ r.env.persistent[c].value = Signer(k, Admin)
               /\ \A d \in Creds \ {c} : ~has(r.env.persistent, d)
               /\ \A d \in Creds : ~has(r.env.temporary, d)

C32_Witness ==
  /\ ~Initialized
  /\ ledger > 0
  /\ last.op \in SignerOps
  /\ last.result = AuthFailed

(***************************************************************************)
(* C33.  A successful remove_signer(c) deletes exactly one storage entry   *)
(* keyed by c (the persistent one when there is one, else the temporary    *)
(* one) and keeps the entry of every other credential in both tiers, with  *)
(* the Signer it held: every other credential resolves as before.  (The    *)
(* authorization of the call may extend the lifetime of the entry that     *)
(* signed it; no other lifetime changes.)                                  *)
(***************************************************************************)
C33_RemoveSignerTouchesOneEntry ==
  \A e \in AuthEntries, c \in Creds :
    LET r == remove_signer(Env, e, c)
        removed == {t \in {"persistent", "temporary"} :
                      has(Env[t], c) /\ ~has(r.env[t], c)}
    IN  r.result = Ok =>
          /\ Cardinality(removed) = 1
          /\ \A t \in {"persistent", "temporary"} :
               t \notin removed => r.env[t][c] = Env[t][c]
          /\ \A d \in Creds \ {c} :
               /\ get(r.env.persistent, d) = get(persistent, d)
               /\ get(r.env.temporary, d) = get(temporary, d)
               /\ get_signer(r.env, d) = get_signer(Env, d)
               /\ d # e.signature.id =>
                    /\ r.env.persistent[d] = persistent[d]
                    /\ r.env.temporary[d] = temporary[d]
               /\ has(persistent, d) =>
                    r.env.persistent[d].live_until >= persistent[d].live_until
               /\ has(temporary, d) =>
                    r.env.temporary[d].live_until >= temporary[d].live_until

C33_Witness ==
  /\ last.op = "remove_signer"
  /\ last.result = Ok
  /\ ~Registered(last.credential_id)
  /\ \E d \in Creds \ {last.credential_id} :
       has(persistent, d) /\ persistent[d].value.kind = Admin
  /\ \E d \in Creds \ {last.credential_id} :
       has(temporary, d) /\ temporary[d].value.kind = Session

(***************************************************************************)
(* C34.  A Factory.deploy whose cross-call to Wallet.init fails (a public  *)
(* key that does not start with 0x04) aborts as a whole: it returns no     *)
(* address, writes no Deployed entry and leaves no wallet contract at the  *)
(* credential's address, so that a deploy of the same credential with a    *)
(* well-formed key succeeds right after it.                                *)
(***************************************************************************)
C34_FailedInitAbortsDeploy ==
  /\ \A s \in TxSigners, d \in Deployers, c \in Creds, k \in PublicKeys :
       LET wallet_address == contract_address(factory_address, sha256(c))
           r == deploy(FEnv, s, d, c, k)
       IN  (/\ d \in s
            /\ FactoryInitialized
            /\ wallets[wallet_address] = None
            /\ init(WalletEnv(NewWallet(ledger), ledger), c, k).result # Ok) =>
             /\ r = Reply(HostTrap, FEnv, None)
             /\ ~has(r.env.persistent, c)
             /\ r.env.wallets[wallet_address] = None
             /\ \A s2 \in TxSigners, d2 \in Deployers, k2 \in ValidKeys :
                  d2 \in s2 =>
                    LET r2 == deploy(r.env, s2, d2, c, k2)
                    IN  /\ r2.result = Ok
                        /\ r2.value = wallet_address
                        /\ get(r2.env.persistent, c) = wallet_address
                        /\ get(r2.env.wallets[wallet_address].persistent, c)
                             = Signer(k2, Admin)
  /\ \A w \in DeployedWallets : WalletAddress \in DOMAIN wallets[w].instance

\* A deploy trapped in init: the factory holds a hash, the credential has
\* neither a Deployed entry nor a wallet, and another credential is deployed.
C34_Witness ==
  /\ last.op = "deploy"
  /\ last.result = HostTrap
  /\ FactoryInitialized
  /\ ~has(factory.persistent, last.credential_id)
  /\ wallets[contract_address(factory_address, sha256(last.credential_id))] = None
  /\ \E c \in Creds : has(factory.persistent, c)

(***************************************************************************)
(* State machine that applies verify_challenge to one blob and payload:    *)
(* blobs with one challenge field or two, in a bare object or behind a     *)
(* type field, followed by the end of the object or by an origin field.    *)
(***************************************************************************)
\* values: the encodings of the two payloads, the empty value and an
\* encoding cut by one byte.  tails, after the first value and its closing
\* quote: the end of the object, an origin field, a second challenge
\* field, or a second challenge field and an origin field.
ExtractionClientDatas ==
  LET values == {base64url_encode(PayloadZero), base64url_encode(PayloadFF), << >>,
                 SubSeq(base64url_encode(PayloadZero), 1, 42)}
      tails == {<< 125 >>, OriginField}
                 \cup {<< 44 >> \o needle \o v \o << 34, 125 >> : v \in values}
                 \cup {<< 44 >> \o needle \o v \o << 34 >> \o OriginField : v \in values}
  IN  {head \o needle \o v \o << 34 >> \o tail :
         head \in {<< 123 >>, TypeField}, v \in values, tail \in tails}

ExtractInit ==
  /\ \E j \in ExtractionClientDatas, p \in Payloads :
       last = [op |-> "input", client_data_json |-> j, signature_payload |-> p]
  /\ instance = << >>
  /\ instance_live = 0
  /\ persistent = [c \in Creds |-> None]
  /\ temporary = [c \in Creds |-> None]
  /\ ledger = 0
  /\ factory = NewFactory
  /\ wallets = [a \in WalletAddresses |-> None]
  /\ swap = << >>
  /\ limits = << >>
  /\ timestamp = 0

CallVerifyChallenge ==
  /\ last.op = "input"
  /\ last' = [op |-> "verify_challenge",
              client_data_json |-> last.client_data_json,
              signature_payload |-> last.signature_payload,
              result |-> verify_challenge(last.client_data_json,
                                          last.signature_payload)]
  /\ UNCHANGED <<swap, limits, timestamp, instance, instance_live, persistent, temporary, ledger,
                 factory, wallets>>

ExtractSpec == ExtractInit /\ [][CallVerifyChallenge]_vars

(***************************************************************************)
(* C35.  verify_challenge compares with the expected challenge exactly the *)
(* bytes between the first occurrence of the needle "challenge":" and the  *)
(* first '"' byte after it: it returns Ok when they equal                  *)
(* base64url_no_pad(signature_payload) and ChallengeMismatch otherwise,    *)
(* whatever a later occurrence of the needle or a later quoted field       *)
(* holds.                                                                  *)
(***************************************************************************)
C35_FirstOccurrenceUpToFirstQuote ==
  last.op = "verify_challenge" =>
    /\ WellDelimited(last.client_data_json)
    /\ last.result =
         IF ChallengeField(last.client_data_json) = Encoded[last.signature_payload]
         THEN Ok ELSE "ChallengeMismatch"

\* verify_challenge refused a blob with two challenge fields and an origin
\* field whose second challenge field holds the expected challenge.
C35_Witness ==
  LET json == last.client_data_json
      offsets == {i \in 0..Len(json) : HasNeedleAt(json, i)}
      quotes == {q \in 1..Len(json) : json[q] = 34}
      from == (CHOOSE i \in offsets : \A k \in offsets : i >= k) + Len(needle) + 1
      quote == CHOOSE q \in quotes : q >= from /\ \A r \in quotes : r >= from => q <= r
  IN  /\ last.op = "verify_challenge"
      /\ last.result = "ChallengeMismatch"
      /\ Cardinality(offsets) = 2
      /\ Cardinality(quotes) > 8
      /\ SubSeq(json, from, quote - 1) = Encoded[last.signature_payload]

(***************************************************************************)
(* SmartSwapContract (smart-swap/src/lib.rs).  env is the contract's view  *)
(* of the ledger: [storage, timestamp], storage its instance storage under *)
(* the keys SWAP_COND, SWAP_EXEC, NEXT_ID and PRICE_ORACLE.  Each entry    *)
(* point yields [result, env, value]; a panic is HostTrap and leaves the   *)
(* view it was given: the writes of a failed invocation are rolled back.   *)
(* Map<u64, _> is a function on its keys and is iterated in key order.     *)
(***************************************************************************)
\* Largest condition id and number of executions explored, and the largest
\* close time of the sibling contracts' ledger.
MaxConditionId == 2
MaxExecutions == 2
MaxTimestamp == 3600

\* Address arguments: owners of conditions and limits.
Owners == {"alice", "bob"}

\* A contract's view of the ledger in the current state, over its storage.
ContractEnv(storage) == [storage |-> storage, timestamp |-> timestamp]

SmartSwap_initialize(env, price_oracle) ==
  Reply(Ok,
        [env EXCEPT !.storage =
           ("NEXT_ID" :> 1) @@ ("PRICE_ORACLE" :> price_oracle) @@ @],
        None)

create_swap_condition(env, owner, source_asset, destination_asset, condition_type, amount_to_swap, min_amount_out, max_slippage, expires_at) ==
  LET storage == env.storage
      next_id == IF "NEXT_ID" \in DOMAIN storage THEN storage["NEXT_ID"] ELSE 1
      condition == [id |-> next_id,
                    owner |-> owner,
                    source_asset |-> source_asset,
                    destination_asset |-> destination_asset,
                    condition_type |-> condition_type,
                    amount_to_swap |-> amount_to_swap,
                    min_amount_out |-> min_amount_out,
                    max_slippage |-> max_slippage,
                    reference_price |-> 0,
                    created_at |-> env.timestamp,
                    expires_at |-> expires_at,
                    status |-> "Active"]
      conditions == IF "SWAP_COND" \in DOMAIN storage THEN storage["SWAP_COND"] ELSE << >>
  IN  Reply(Ok,
            [env EXCEPT !.storage =
               ("NEXT_ID" :> next_id + 1)
                 @@ ("SWAP_COND" :> ((next_id :> condition) @@ conditions)) @@ @],
            next_id)

\* get_current_price is the mock oracle and execute_swap the mock exchange.
\* The expired branch sets the status to Expired and stores the map before
\* it panics; the panic undoes both.
execute_swap_condition(env, condition_id) ==
  LET storage == env.storage
      conditions == IF "SWAP_COND" \in DOMAIN storage THEN storage["SWAP_COND"] ELSE << >>
      get_current_price(price_oracle, source_asset, destination_asset) == 1000
      is_condition_met(condition, current_price) ==
        LET type == condition.condition_type
            reference_price == condition.reference_price
        IN  CASE type.kind = "PercentageIncrease" ->
                   current_price >= reference_price + ((reference_price * type.arg) \div 100)
              [] type.kind = "PercentageDecrease" ->
                   current_price <= reference_price - ((reference_price * type.arg) \div 100)
              [] type.kind = "TargetPrice" -> current_price = type.arg
              [] type.kind = "PriceAbove" -> current_price > type.arg
              [] type.kind = "PriceBelow" -> current_price < type.arg
      execute_swap(owner, source_asset, destination_asset, amount_in, min_amount_out,
                   max_slippage) == min_amount_out
  IN  IF condition_id \notin DOMAIN conditions THEN Reply(HostTrap, env, None)
      ELSE
      LET condition == conditions[condition_id]
      IN  IF condition.status # "Active" THEN Reply(HostTrap, env, None)
          ELSE IF env.timestamp > condition.expires_at THEN Reply(HostTrap, env, None)
          ELSE IF "PRICE_ORACLE" \notin DOMAIN storage THEN Reply(HostTrap, env, None)
          ELSE
          LET current_price == get_current_price(storage["PRICE_ORACLE"],
                                                 condition.source_asset,
                                                 condition.destination_asset)
          IN  IF ~is_condition_met(condition, current_price)
              THEN Reply(HostTrap, env, None)
              ELSE
              LET actual_amount_out ==
                    execute_swap(condition.owner, condition.source_asset,
                                 condition.destination_asset, condition.amount_to_swap,
                                 condition.min_amount_out, condition.max_slippage)
                  updated == [condition EXCEPT !.status = "Executed",
                                               !.reference_price = current_price]
                  execution == [condition_id |-> condition_id,
                                executed_at |-> env.timestamp,
                                actual_amount_out |-> actual_amount_out,
                                price_at_execution |-> current_price,
                                transaction_hash |-> "swap"]
                  executions == IF "SWAP_EXEC" \in DOMAIN storage
                                THEN storage["SWAP_EXEC"] ELSE << >>
              IN  Reply(Ok,
                        [env EXCEPT !.storage =
                           ("SWAP_EXEC" :> Append(executions, execution))
                             @@ ("SWAP_COND" :> [conditions EXCEPT ![condition_id] = updated])
                             @@ @],
                        execution)

get_active_conditions(env, owner) ==
  LET storage == env.storage
      conditions == IF "SWAP_COND" \in DOMAIN storage THEN storage["SWAP_COND"] ELSE << >>
      keys == DOMAIN conditions
      iter == [i \in 1..Cardinality(keys) |->
                 conditions[CHOOSE k \in keys : Cardinality({j \in keys : j <= k}) = i]]
      is_active(condition) == condition.owner = owner /\ condition.status = "Active"
  IN  Reply(Ok, env, SelectSeq(iter, is_active))

cancel_condition(env, condition_id, owner) ==
  LET storage == env.storage
      conditions == IF "SWAP_COND" \in DOMAIN storage THEN storage["SWAP_COND"] ELSE << >>
  IN  IF condition_id \notin DOMAIN conditions THEN Reply(HostTrap, env, None)
      ELSE
      LET condition == conditions[condition_id]
      IN  IF condition.owner # owner THEN Reply(HostTrap, env, None)
          ELSE IF condition.status # "Active" THEN Reply(HostTrap, env, None)
          ELSE Reply(Ok,
                     [env EXCEPT !.storage =
                        ("SWAP_COND" :>
                           [conditions EXCEPT ![condition_id].status = "Cancelled"]) @@ @],
                     None)

(***************************************************************************)
(* State machine of one SmartSwap contract.  Each invocation commits the   *)
(* storage it leaves.  The wallet and the factory are not part of it and   *)
(* stay as they were constructed.                                          *)
(***************************************************************************)
CallSwapInitialize ==
  LET r == SmartSwap_initialize(ContractEnv(swap), "oracle")
  IN  /\ swap' = r.env.storage
      /\ last' = [op |-> "initialize", result |-> r.result]
      /\ UNCHANGED <<instance, instance_live, persistent, temporary, ledger,
                     factory, wallets, limits, timestamp>>

\* test_create_swap_condition's arguments, with its PriceAbove(1000), which
\* the mock price does not meet, or PriceBelow(1001), which it meets.
CallCreateSwapCondition ==
  \E owner \in Owners,
     condition_type \in {[kind |-> "PriceAbove", arg |-> 1000],
                         [kind |-> "PriceBelow", arg |-> 1001]} :
    LET r == create_swap_condition(ContractEnv(swap), owner, "XLM", "USDC",
                                   condition_type, 1000, 950, 5, 0)
    IN  /\ r.value <= MaxConditionId
        /\ swap' = r.env.storage
        /\ last' = [op |-> "create_swap_condition", owner |-> owner,
                    result |-> r.result, value |-> r.value]
        /\ UNCHANGED <<instance, instance_live, persistent, temporary, ledger,
                       factory, wallets, limits, timestamp>>

CallExecuteSwapCondition ==
  \E condition_id \in 1..MaxConditionId :
    LET r == execute_swap_condition(ContractEnv(swap), condition_id)
    IN  /\ r.result = Ok => Len(r.env.storage["SWAP_EXEC"]) <= MaxExecutions
        /\ swap' = r.env.storage
        /\ last' = [op |-> "execute_swap_condition", condition_id |-> condition_id,
                    result |-> r.result, value |-> r.value]
        /\ UNCHANGED <<instance, instance_live, persistent, temporary, ledger,
                       factory, wallets, limits, timestamp>>

CallGetActiveConditions ==
  \E owner \in Owners :
    LET r == get_active_conditions(ContractEnv(swap), owner)
    IN  /\ swap' = r.env.storage
        /\ last' = [op |-> "get_active_conditions", owner |-> owner,
                    result |-> r.result, value |-> r.value]
        /\ UNCHANGED <<instance, instance_live, persistent, temporary, ledger,
                       factory, wallets, limits, timestamp>>

CallCancelCondition ==
  \E condition_id \in 1..MaxConditionId, owner \in Owners :
    LET r == cancel_condition(ContractEnv(swap), condition_id, owner)
    IN  /\ swap' = r.env.storage
        /\ last' = [op |-> "cancel_condition", condition_id |-> condition_id,
                    owner |-> owner, result |-> r.result]
        /\ UNCHANGED <<instance, instance_live, persistent, temporary, ledger,
                       factory, wallets, limits, timestamp>>

\* An hour of ledgers closes.
AdvanceHour ==
  /\ timestamp + 3600 <= MaxTimestamp
  /\ timestamp' = timestamp + 3600
  /\ last' = [op |-> "advance_timestamp"]
  /\ UNCHANGED <<instance, instance_live, persistent, temporary, ledger,
                 factory, wallets, swap, limits>>

SwapSpec ==
  Init /\ [][\/ CallSwapInitialize
             \/ CallCreateSwapCondition
             \/ CallExecuteSwapCondition
             \/ CallGetActiveConditions
             \/ CallCancelCondition
             \/ AdvanceHour]_vars

(***************************************************************************)
(* C36.  A condition is created Active and every other status is           *)
(* terminal: a stored condition stays stored, one that is not Active keeps *)
(* its status, execute_swap_condition and cancel_condition fail on it and  *)
(* cancel_condition fails for a caller that is not its owner, so no        *)
(* condition id has more than one execution; get_active_conditions(owner)  *)
(* returns exactly the stored conditions of the owner with status Active.  *)
(***************************************************************************)
C36_ActiveOnceThenTerminal ==
  [][LET Conditions == IF "SWAP_COND" \in DOMAIN swap THEN swap["SWAP_COND"] ELSE << >>
         Executions == IF "SWAP_EXEC" \in DOMAIN swap THEN swap["SWAP_EXEC"] ELSE << >>
         SwapEnv == ContractEnv(swap)
     IN
     /\ (last'.op = "create_swap_condition" /\ last'.result = Ok)
          => Conditions'[last'.value].status = "Active"
     /\ \A id \in DOMAIN Conditions :
          /\ id \in DOMAIN Conditions'
          /\ Conditions[id].status # "Active"
               => /\ Conditions'[id].status = Conditions[id].status
                  /\ execute_swap_condition(SwapEnv, id) = Reply(HostTrap, SwapEnv, None)
                  /\ \A owner \in Owners :
                       cancel_condition(SwapEnv, id, owner) = Reply(HostTrap, SwapEnv, None)
          /\ \A owner \in Owners \ {Conditions[id].owner} :
               cancel_condition(SwapEnv, id, owner) = Reply(HostTrap, SwapEnv, None)
     /\ \A id \in DOMAIN Conditions' :
          Cardinality({i \in DOMAIN Executions' : Executions'[i].condition_id = id}) <= 1
     /\ \A owner \in Owners :
          LET active == get_active_conditions(SwapEnv', owner).value
          IN  /\ {active[i] : i \in DOMAIN active}
                   = {Conditions'[id] : id \in {k \in DOMAIN Conditions' :
                                                  /\ Conditions'[k].owner = owner
                                                  /\ Conditions'[k].status = "Active"}}
              /\ \A i, j \in DOMAIN active : active[i] = active[j] => i = j]_vars

(***************************************************************************)
(* C37.  After execute_swap_condition was attempted on an Active condition *)
(* at a close time greater than its expires_at, the stored condition has   *)
(* status Expired and get_active_conditions of its owner does not return   *)
(* it.                                                                     *)
(***************************************************************************)
C37_ExpiredOnLateExecute ==
  [][LET Conditions == IF "SWAP_COND" \in DOMAIN swap THEN swap["SWAP_COND"] ELSE << >>
     IN
     (/\ last'.op = "execute_swap_condition"
      /\ last'.condition_id \in DOMAIN Conditions
      /\ Conditions[last'.condition_id].status = "Active"
      /\ timestamp > Conditions[last'.condition_id].expires_at)
       => LET condition == Conditions'[last'.condition_id]
              active == get_active_conditions(ContractEnv(swap)', condition.owner).value
          IN  /\ condition.status = "Expired"
              /\ \A i \in DOMAIN active : active[i].id # condition.id]_vars

(***************************************************************************)
(* SecurityLimitsContract (security-limits/src/lib.rs).  env is the        *)
(* contract's view of the ledger: [storage, timestamp], storage its        *)
(* instance storage under the keys SEC_LIMITS, TX_RECORDS, NEXT_LIMIT_ID   *)
(* and NEXT_TX_ID.  Amounts stay far below the range of u64.               *)
(***************************************************************************)
\* Largest limit id and number of transaction records explored.
MaxLimitId == 1
MaxRecords == 2

SecurityLimits_initialize(env) ==
  Reply(Ok,
        [env EXCEPT !.storage = ("NEXT_LIMIT_ID" :> 1) @@ ("NEXT_TX_ID" :> 1) @@ @],
        None)

create_security_limit(env, owner, limit_type, asset, max_amount, time_window) ==
  LET storage == env.storage
      next_id == IF "NEXT_LIMIT_ID" \in DOMAIN storage THEN storage["NEXT_LIMIT_ID"] ELSE 1
      limit == [id |-> next_id,
                owner |-> owner,
                limit_type |-> limit_type,
                asset |-> asset,
                max_amount |-> max_amount,
                time_window |-> time_window,
                current_usage |-> 0,
                last_reset |-> env.timestamp,
                is_active |-> TRUE,
                created_at |-> env.timestamp]
      stored == IF "SEC_LIMITS" \in DOMAIN storage THEN storage["SEC_LIMITS"] ELSE << >>
  IN  Reply(Ok,
            [env EXCEPT !.storage =
               ("NEXT_LIMIT_ID" :> next_id + 1)
                 @@ ("SEC_LIMITS" :> ((next_id :> limit) @@ stored)) @@ @],
            next_id)

is_limit_applicable(limit, current_time) ==
  CASE limit.limit_type.kind = "Daily" -> current_time - limit.last_reset < 86400
    [] limit.limit_type.kind = "Weekly" -> current_time - limit.last_reset < 604800
    [] limit.limit_type.kind = "Monthly" -> current_time - limit.last_reset < 2592000
    [] limit.limit_type.kind = "PerTransaction" -> TRUE
    [] limit.limit_type.kind = "PerHour" -> current_time - limit.last_reset < 3600
    [] limit.limit_type.kind = "Custom" ->
         current_time - limit.last_reset < limit.limit_type.arg

\* check_transaction_allowed that compares the amount alone with max_amount.
check_transaction_allowed_AmountOnly(env, owner, asset, amount) ==
  LET storage == env.storage
      stored == IF "SEC_LIMITS" \in DOMAIN storage THEN storage["SEC_LIMITS"] ELSE << >>
      current_time == env.timestamp
      exceeded(limit) ==
        /\ limit.owner = owner /\ limit.asset = asset /\ limit.is_active
        /\ is_limit_applicable(limit, current_time)
        /\ amount > limit.max_amount
  IN  Reply(Ok, env, ~(\E id \in DOMAIN stored : exceeded(stored[id])))

\* The loop returns false at the first limit the amount exceeds; the reset
\* of updated_limit is made on a copy and never stored.
check_transaction_allowed(env, owner, asset, amount) ==
  LET storage == env.storage
      stored == IF "SEC_LIMITS" \in DOMAIN storage THEN storage["SEC_LIMITS"] ELSE << >>
      current_time == env.timestamp
      exceeded(limit) ==
        /\ limit.owner = owner /\ limit.asset = asset /\ limit.is_active
        /\ is_limit_applicable(limit, current_time)
        /\ LET current_usage == IF current_time - limit.last_reset > limit.time_window
                                THEN 0 ELSE limit.current_usage
           IN  current_usage + amount > limit.max_amount
  IN  Reply(Ok, env, ~(\E id \in DOMAIN stored : exceeded(stored[id])))

\* update_limit_usage adds the amount to every active limit of the owner
\* and asset, and stores the map.
record_transaction(env, owner, asset, amount, transaction_hash) ==
  LET storage == env.storage
      next_tx_id == IF "NEXT_TX_ID" \in DOMAIN storage THEN storage["NEXT_TX_ID"] ELSE 1
      record == [id |-> next_tx_id,
                 owner |-> owner,
                 asset |-> asset,
                 amount |-> amount,
                 timestamp |-> env.timestamp,
                 transaction_hash |-> transaction_hash]
      records == IF "TX_RECORDS" \in DOMAIN storage THEN storage["TX_RECORDS"] ELSE << >>
      update_limit_usage(s) ==
        LET stored == IF "SEC_LIMITS" \in DOMAIN s THEN s["SEC_LIMITS"] ELSE << >>
        IN  ("SEC_LIMITS" :>
               [id \in DOMAIN stored |->
                  IF /\ stored[id].owner = owner
                     /\ stored[id].asset = asset
                     /\ stored[id].is_active
                  THEN [stored[id] EXCEPT !.current_usage = @ + amount]
                  ELSE stored[id]]) @@ s
  IN  Reply(Ok,
            [env EXCEPT !.storage =
               ("NEXT_TX_ID" :> next_tx_id + 1)
                 @@ update_limit_usage(("TX_RECORDS" :> Append(records, record))
                                         @@ storage)],
            next_tx_id)

update_security_limit(env, limit_id, owner, max_amount, time_window, is_active) ==
  LET storage == env.storage
      stored == IF "SEC_LIMITS" \in DOMAIN storage THEN storage["SEC_LIMITS"] ELSE << >>
  IN  IF limit_id \notin DOMAIN stored THEN Reply(HostTrap, env, None)
      ELSE IF stored[limit_id].owner # owner THEN Reply(HostTrap, env, None)
      ELSE Reply(Ok,
                 [env EXCEPT !.storage =
                    ("SEC_LIMITS" :>
                       [stored EXCEPT ![limit_id] =
                          [@ EXCEPT !.max_amount = max_amount,
                                    !.time_window = time_window,
                                    !.is_active = is_active]]) @@ @],
                 None)

(***************************************************************************)
(* State machine of one SecurityLimits contract.  Each invocation commits  *)
(* the storage it leaves.                                                  *)
(***************************************************************************)
CallLimitsInitialize ==
  LET r == SecurityLimits_initialize(ContractEnv(limits))
  IN  /\ limits' = r.env.storage
      /\ last' = [op |-> "initialize", result |-> r.result]
      /\ UNCHANGED <<instance, instance_live, persistent, temporary, ledger,
                     factory, wallets, swap, timestamp>>

\* test_create_security_limit's arguments (Daily, XLM, 10000, 86400), an
\* hourly limit, and a daily limit with half an hour's time_window.
CallCreateSecurityLimit ==
  \E owner \in Owners,
     kind \in {<< "Daily", 86400 >>, << "PerHour", 3600 >>, << "Daily", 1800 >>} :
    LET r == create_security_limit(ContractEnv(limits), owner, [kind |-> kind[1]],
                                   "XLM", 10000, kind[2])
    IN  /\ r.value <= MaxLimitId
        /\ limits' = r.env.storage
        /\ last' = [op |-> "create_security_limit", result |-> r.result,
                    value |-> r.value]
        /\ UNCHANGED <<instance, instance_live, persistent, temporary, ledger,
                       factory, wallets, swap, timestamp>>

\* The amounts of test_check_transaction_allowed: within and over max_amount.
CallCheckTransactionAllowed ==
  \E owner \in Owners, amount \in {5000, 15000} :
    LET r == check_transaction_allowed(ContractEnv(limits), owner, "XLM", amount)
    IN  /\ limits' = r.env.storage
        /\ last' = [op |-> "check_transaction_allowed", owner |-> owner,
                    amount |-> amount, result |-> r.result, value |-> r.value]
        /\ UNCHANGED <<instance, instance_live, persistent, temporary, ledger,
                       factory, wallets, swap, timestamp>>

CallRecordTransaction ==
  \E owner \in Owners :
    LET r == record_transaction(ContractEnv(limits), owner, "XLM", 5000, "hash")
    IN  /\ Len(r.env.storage["TX_RECORDS"]) <= MaxRecords
        /\ limits' = r.env.storage
        /\ last' = [op |-> "record_transaction", result |-> r.result,
                    value |-> r.value]
        /\ UNCHANGED <<instance, instance_live, persistent, temporary, ledger,
                       factory, wallets, swap, timestamp>>

\* The owner or another account switches a stored limit off or on.
CallUpdateSecurityLimit ==
  LET stored == IF "SEC_LIMITS" \in DOMAIN limits THEN limits["SEC_LIMITS"] ELSE << >>
  IN  \E limit_id \in DOMAIN stored, owner \in Owners, is_active \in BOOLEAN :
        LET r == update_security_limit(ContractEnv(limits), limit_id, owner,
                                       stored[limit_id].max_amount,
                                       stored[limit_id].time_window, is_active)
        IN  /\ limits' = r.env.storage
            /\ last' = [op |-> "update_security_limit", result |-> r.result]
            /\ UNCHANGED <<instance, instance_live, persistent, temporary, ledger,
                           factory, wallets, swap, timestamp>>

LimitsSpec ==
  Init /\ [][\/ CallLimitsInitialize
             \/ CallCreateSecurityLimit
             \/ CallCheckTransactionAllowed
             \/ CallRecordTransaction
             \/ CallUpdateSecurityLimit
             \/ AdvanceHour]_vars

(***************************************************************************)
(* C38.  The ids returned by create_swap_condition, create_security_limit  *)
(* and record_transaction start at 1 and are unique and strictly           *)
(* increasing, whatever calls were made before, initialize included: each  *)
(* returned id is 1 when nothing was created before and greater than every *)
(* id given before otherwise, and no stored condition or limit is          *)
(* overwritten by a create.                                                *)
(***************************************************************************)
C38_IdsUniqueAndIncreasing ==
  [][LET Conditions == IF "SWAP_COND" \in DOMAIN swap THEN swap["SWAP_COND"] ELSE << >>
         Limits == IF "SEC_LIMITS" \in DOMAIN limits THEN limits["SEC_LIMITS"] ELSE << >>
         Records == IF "TX_RECORDS" \in DOMAIN limits THEN limits["TX_RECORDS"] ELSE << >>
     IN
     /\ (last'.op = "create_swap_condition" /\ last'.result = Ok) =>
          /\ DOMAIN Conditions = {} => last'.value = 1
          /\ \A id \in DOMAIN Conditions :
               last'.value > id /\ Conditions'[id] = Conditions[id]
     /\ (last'.op = "create_security_limit" /\ last'.result = Ok) =>
          /\ DOMAIN Limits = {} => last'.value = 1
          /\ \A id \in DOMAIN Limits :
               last'.value > id /\ Limits'[id] = Limits[id]
     /\ (last'.op = "record_transaction" /\ last'.result = Ok) =>
          /\ Records = << >> => last'.value = 1
          /\ \A i \in DOMAIN Records : last'.value > Records[i].id]_vars

C40_EnforcedAfterWindow ==
  LET Limits == IF "SEC_LIMITS" \in DOMAIN limits THEN limits["SEC_LIMITS"] ELSE << >>
  IN
  \A owner \in Owners, amount \in {5000, 15000} :
    (\E id \in DOMAIN Limits :
       /\ Limits[id].owner = owner
       /\ Limits[id].asset = "XLM"
       /\ Limits[id].is_active
       /\ Limits[id].limit_type.kind # "PerTransaction"
       /\ amount > Limits[id].max_amount)
      => check_transaction_allowed(ContractEnv(limits), owner, "XLM", amount).value = FALSE

====
